---- MODULE Spec2Model ----
(***************************************************************************)
(* Session manager of the mcpize CLI: the persisted session file           *)
(* (lib/config.ts), token lookup and refresh (lib/auth.ts, two revisions   *)
(* of which are in the repository), login and logout.                      *)
(*                                                                         *)
(* Several CLI invocations (separate OS processes) share one session file  *)
(* and one identity endpoint.  Every read of the file (loadConfig) and     *)
(* every file-system call of saveConfig is one atomic step, so that        *)
(* siblings interleave between any two of them.                            *)
(*                                                                         *)
(* Encoding of values                                                      *)
(*   tokens      0 is undefined/null; n >= 1 is the access (or refresh)    *)
(*               token of the n-th pair the identity endpoint issued;      *)
(*               negative numbers are tokens supplied by --token or        *)
(*               MCPIZE_TOKEN                                              *)
(*   time        `now' is Date.now() in milliseconds                       *)
(*   expiresAt   Unix seconds, 0 is undefined                              *)
(***************************************************************************)
EXTENDS Integers, FiniteSets, Sequences, TLC

(* ------------------------------ bounds --------------------------------- *)
Procs == {"p1", "p2"}
MaxTicks == 6
MaxCommands == 2
MaxSignals == 2
MaxElapsedTicks == 4
MaxCloses == 2
TickStepsMs == {500}
StartTimesMs == {100000}
ExpiresInValues == {61}

(* ------------------------- program constants --------------------------- *)
EXPIRY_MARGIN_S == 60
REUSE_RETRIES == 3
REUSE_DELAY_MS == 500
MS_PER_S == 1000
STARTUP_TIMEOUT_MS == 30000
maxAttempts == 30
MAX_RETRIES == 3
RETRY_DELAY_MS == 2000

CONFIG_FILE == "config.json"

(* ------------------------- lib/config.ts -------------------------------- *)


\* JSON.stringify(config): the set of key/value members; undefined fields
\* are dropped
JsonStringify(cfg) ==
  {<<k, cfg[k]>> : k \in {f \in DOMAIN cfg : cfg[f] # 0}}

\* JSON.parse(content) as MCPizeConfig: a member that is not there reads as
\* undefined
JsonParse(doc) ==
  [k \in {"token", "refreshToken", "expiresAt"} |->
     IF \E m \in doc : m[1] = k THEN (CHOOSE m \in doc : m[1] = k)[2] ELSE 0]

\* what a path of the file system holds: no file, a file whose write has
\* begun but not completed, or a complete document
Absent == [kind |-> "absent", doc |-> {}]
Complete(doc) == [kind |-> "complete", doc |-> doc]

\* tempFile of saveConfig: a fresh random name per save; one per process
TempFileBuggy(p) == CONFIG_FILE
TempFile(p) == "config." \o p \o ".tmp"

Paths == {CONFIG_FILE} \cup {TempFile(p) : p \in Procs}

\* loadConfig(): {} when the file does not exist or does not parse
LoadConfig(files) ==
  IF files[CONFIG_FILE].kind = "complete"
    THEN JsonParse(files[CONFIG_FILE].doc)
    ELSE [token |-> 0, refreshToken |-> 0, expiresAt |-> 0]

\* isTokenExpired() on a loaded config at time t (ms)
IsTokenExpiredEager(cfg, t) ==
  IF cfg.expiresAt = 0 THEN TRUE
  ELSE t >= (cfg.expiresAt - EXPIRY_MARGIN_S) * MS_PER_S
IsTokenExpired(cfg, t) ==
  IF cfg.expiresAt = 0 THEN TRUE
  ELSE t > (cfg.expiresAt - EXPIRY_MARGIN_S) * MS_PER_S

\* the config setSession() saves at time t (ms)
SetSessionCfgNoFloor(cfg, accessToken, refreshToken, expiresIn, t) ==
  [cfg EXCEPT !.token = accessToken,
              !.refreshToken = refreshToken,
              !.expiresAt = ((t + MS_PER_S - 1) \div MS_PER_S) + expiresIn]
SetSessionCfg(cfg, accessToken, refreshToken, expiresIn, t) ==
  [cfg EXCEPT !.token = accessToken,
              !.refreshToken = refreshToken,
              !.expiresAt = (t \div MS_PER_S) + expiresIn]

\* the config clearSession() saves
ClearSessionCfg(cfg) ==
  [cfg EXCEPT !.token = 0, !.refreshToken = 0, !.expiresAt = 0]

(* ------------------------------ state ----------------------------------- *)
VARIABLES
  fs,      \* the files of ~/.mcpize: path -> content
  now,     \* Date.now(), ms
  issued,  \* identity endpoint: number of token pairs issued so far
  pc,      \* per process: where the CLI invocation stands
  cmd,     \* per process: the command it runs
  flag,    \* per process: tokenOverride (--token), 0 is null
  env,     \* per process: process.env.MCPIZE_TOKEN, 0 is unset or ""
  loc,     \* per process: locals of the running functions
  hist,    \* per process: what the current command has done so far
  runs     \* number of CLI invocations started so far

VARIABLES
  body,          \* the JSON body of a failed refresh response
  errorMessage,  \* refreshAccessToken(): the message taken from the body
  isAlreadyUsed, \* refreshAccessToken(): the reuse signal was detected
  scan           \* where the handling of the failed response stands

sessionVars == <<fs, now, issued, pc, cmd, flag, env, loc, hist, runs>>
scanVars == <<body, errorMessage, isAlreadyUsed, scan>>
VARIABLES
  options,     \* mcpize dev: the options --tunnel and --provider
  reports,     \* provider -> what its isAvailable() answers
  dev,         \* where the dev workflow stands
  tunnel,      \* dev: `let tunnel', "null" or the connection
  signals,     \* SIGINT/SIGTERM received so far
  cleanups,    \* cleanup() calls waiting for `await tunnel.close()'
  exitedBy,    \* what made the dev process exit
  ct,          \* where createTunnel() stands
  probed,      \* providers whose isAvailable() was called, in order
  chosen,      \* the provider createTunnel() has settled on
  announce,    \* what createTunnel() has printed about its choice
  connects,    \* provider -> number of calls of its connect()
  ctError,     \* the error createTunnel() rejected with
  proc,        \* cloudflared: the spawned child process
  procEnd,     \* cloudflared: what ended the child, and its exit code
  resolved,    \* cloudflared connect(): `let resolved'
  timer,       \* cloudflared connect(): the startup timer
  elapsed,     \* ms since connect() was called
  promise,     \* cloudflared connect(): the promise it returned
  output,      \* what the child has yet to write, and on which stream
  delivered,   \* what the child has written so far
  sdk,         \* ngrok / localtunnel: the session of the library
  attempt,     \* localtunnel connect(): `attempt'
  closeCalls,  \* calls of the connection's close()
  closeThrew   \* a call of close() threw or rejected

VARIABLES
  child,       \* dev: the dev server process spawn() returned
  poll,        \* waitForServer(): turns of its loop that have failed
  isHealthy    \* dev: `const isHealthy', "pending" until it is assigned

envVars == <<options, reports>>
healthVars == <<child, poll, isHealthy>>
devVars == <<dev, tunnel, signals, cleanups, exitedBy, healthVars>>
ctVars == <<ct, probed, chosen, announce, connects, ctError>>
cfVars ==
  <<proc, procEnd, resolved, timer, elapsed, promise, output, delivered>>
VARIABLES
  lastError,   \* localtunnel connect(): `let lastError', "null" or a message
  ltCalls,     \* calls of localtunnel.default({ port }) so far
  ltErrors,    \* the messages of the calls that failed, in order
  ltSleptMs,   \* localtunnel connect(): the delays waited so far, ms
  thrown       \* localtunnel connect(): the error it threw

sdkVars == <<sdk, attempt, lastError, ltCalls, ltErrors, ltSleptMs, thrown>>
closeVars == <<closeCalls, closeThrew>>

tunnelVars == <<envVars, devVars, ctVars, cfVars, sdkVars, closeVars>>

VARIABLES
  wr,           \* where the call of withRetry() stands
  wrAttempt,    \* withRetry(): `attempt'
  wrLastError,  \* withRetry(): `let lastError'
  wrCalls,      \* calls of fn() so far
  wrErrors,     \* what the calls of fn() have thrown, in order
  wrDelays,     \* the delays withRetry() has asked sleep() for, in order
  wrThrown      \* what withRetry() has thrown

retryVars ==
  <<wr, wrAttempt, wrLastError, wrCalls, wrErrors, wrDelays, wrThrown>>

vars == <<sessionVars, scanVars, tunnelVars, retryVars>>

\* a response of the identity endpoint as the caller sees it
\*   ok      HTTP 2xx, body {access_token, refresh_token, expires_in}
\*   reuse   not ok, the message of the body says "already used" /
\*           "refresh_token_reuse"
\*   error   not ok, any other message
\*   nojson  not ok, the body does not parse
\*   throw   fetch rejected (network error, timeout)
NoResp == [kind |-> "none", pair |-> 0, expiresIn |-> 0]
Failure(k) == [kind |-> k, pair |-> 0, expiresIn |-> 0]
Success(n, e) == [kind |-> "ok", pair |-> n, expiresIn |-> e]

L0 == [token |-> 0, orig |-> 0, cur |-> 0, curAT |-> 0, retry |-> 0,
       wake |-> 0, resp |-> NoResp, content |-> {}, after |-> "none",
       result |-> 0]

\* fetches: requests sent to the identity endpoint; writes: renames onto
\* CONFIG_FILE; rereads, sleptMs: iterations and requested delays of the
\* reuse loop; respMs: when the refresh response was handled; setMs: when
\* setSession() was called; sibling: what the examination of a sibling's
\* persisted session found ("none" while it has not been examined)
H0 == [fetches |-> 0, writes |-> 0, rereads |-> 0, sleptMs |-> 0,
       respMs |-> 0, setMs |-> 0, sibling |-> "none"]

Truthy(v) == v # 0

SetMax(S) == CHOOSE x \in S : \A y \in S : y <= x
SetMin(S) == CHOOSE x \in S : \A y \in S : x <= y

\* !originalRefreshToken || originalRefreshToken.trim() === ""
NoRefreshTokenNever(rt) == FALSE
NoRefreshToken(rt) == ~Truthy(rt)

(* ------------------ the body of a failed refresh response --------------- *)
\* a string is a sequence of characters; <<>> is "" or a field that is not
\* there (both are falsy)
UpperCase == <<"A", "B", "C", "D", "E", "F", "G", "H", "I", "J", "K", "L",
               "M", "N", "O", "P", "Q", "R", "S", "T", "U", "V", "W", "X",
               "Y", "Z">>
LowerCase == <<"a", "b", "c", "d", "e", "f", "g", "h", "i", "j", "k", "l",
               "m", "n", "o", "p", "q", "r", "s", "t", "u", "v", "w", "x",
               "y", "z">>

\* String.prototype.toLowerCase()
LowerChar(c) ==
  IF \E i \in DOMAIN UpperCase : UpperCase[i] = c
    THEN LowerCase[CHOOSE i \in DOMAIN UpperCase : UpperCase[i] = c]
    ELSE c
ToLowerCase(str) == [i \in 1..Len(str) |-> LowerChar(str[i])]

\* String.prototype.includes(sub)
Includes(str, sub) ==
  \E i \in 0..(Len(str) - Len(sub)) : SubSeq(str, i + 1, i + Len(sub)) = sub

ALREADY_USED == <<"a", "l", "r", "e", "a", "d", "y", " ", "u", "s", "e", "d">>
REFRESH_TOKEN_REUSE ==
  <<"r", "e", "f", "r", "e", "s", "h", "_", "t", "o", "k", "e", "n", "_",
    "r", "e", "u", "s", "e">>

\* messages a body may carry
BodyText ==
  [AlreadyUsed |->
     <<"A", "l", "r", "e", "a", "d", "y", " ", "U", "s", "e", "d">>,
   RefreshTokenReuse |->
     <<"R", "e", "f", "r", "e", "s", "h", "_", "T", "o", "k", "e", "n",
       "_", "R", "e", "u", "s", "e">>,
   TokenReuse |->
     <<"T", "o", "k", "e", "n", " ", "R", "e", "u", "s", "e">>,
   InvalidGrant |->
     <<"i", "n", "v", "a", "l", "i", "d", "_", "g", "r", "a", "n", "t">>,
   Code |->
     <<"a", "l", "r", "e", "a", "d", "y", "_", "u", "s", "e", "d">>,
   ErrorCode |->
     <<"E", "r", "r", "o", "r", " ", "c", "o", "d", "e", ":", " ">>,
   Http |->
     <<"H", "T", "T", "P", " ", "4", "0", "0">>]

Messages ==
  {<<>>, BodyText.AlreadyUsed, BodyText.RefreshTokenReuse,
   BodyText.TokenReuse, BodyText.InvalidGrant}

\* interface RefreshError, and a body that is not JSON
Bodies ==
  [json : {TRUE}, error : Messages, error_description : Messages,
   msg : Messages, message : Messages, error_code : {<<>>, BodyText.Code}]
    \cup {[json |-> FALSE, error |-> <<>>, error_description |-> <<>>,
           msg |-> <<>>, message |-> <<>>, error_code |-> <<>>]}

\* a || b for strings
OrElse(a, b) == IF a # <<>> THEN a ELSE b

\* error.error_description || error.msg || error.message || error.error ||
\* (error.error_code ? `Error code: ${error.error_code}` : errorMessage)
ErrorMessageErrorFirst(b, httpMessage) ==
  OrElse(b.error, OrElse(b.error_description, OrElse(b.msg,
    OrElse(b.message,
      IF b.error_code # <<>> THEN BodyText.ErrorCode \o b.error_code
                             ELSE httpMessage))))
ErrorMessage(b, httpMessage) ==
  OrElse(b.error_description, OrElse(b.msg, OrElse(b.message,
    OrElse(b.error,
      IF b.error_code # <<>> THEN BodyText.ErrorCode \o b.error_code
                             ELSE httpMessage))))

\* errorMessage.toLowerCase().includes("already used") ||
\* errorMessage.toLowerCase().includes("refresh_token_reuse")
IsAlreadyUsedExact(message) ==
  Includes(message, ALREADY_USED) \/ Includes(message, REFRESH_TOKEN_REUSE)
IsAlreadyUsed(message) ==
  \/ Includes(ToLowerCase(message), ALREADY_USED)
  \/ Includes(ToLowerCase(message), REFRESH_TOKEN_REUSE)

\* no failed response is being handled
ScanIdle ==
  /\ body = CHOOSE b \in Bodies : ~b.json
  /\ errorMessage = <<>>
  /\ isAlreadyUsed = FALSE
  /\ scan = "none"

\* no CLI invocation is running and there is no session file
SessionIdle ==
  /\ now = SetMin(StartTimesMs)
  /\ fs = [path \in Paths |-> Absent]
  /\ issued = 1
  /\ pc = [p \in Procs |-> "idle"]
  /\ cmd = [p \in Procs |-> "none"]
  /\ flag = [p \in Procs |-> 0]
  /\ env = [p \in Procs |-> 0]
  /\ loc = [p \in Procs |-> L0]
  /\ hist = [p \in Procs |-> H0]
  /\ runs = 0

(* ------------------ tunnel/: providers and connections ------------------- *)
\* const providers: Record<TunnelProviderType, TunnelProvider>
Providers == {"localtunnel", "ngrok", "cloudflared"}

NoPromise == [state |-> "none", url |-> <<>>, error |-> "none", code |-> 0]
NoThrown == [attempts |-> 0, message |-> "null"]

\* createTunnel() has not been called
TunnelOff ==
  /\ tunnel = "null"
  /\ child = "none"
  /\ poll = 0
  /\ isHealthy = "pending"
  /\ signals = 0
  /\ cleanups = 0
  /\ exitedBy = "none"
  /\ ct = "none"
  /\ probed = <<>>
  /\ chosen = "none"
  /\ announce = "none"
  /\ connects = [t \in Providers |-> 0]
  /\ ctError = [kind |-> "none", provider |-> "none", hint |-> ""]
  /\ proc = "none"
  /\ procEnd = [by |-> "none", code |-> 0]
  /\ resolved = FALSE
  /\ timer = "none"
  /\ elapsed = 0
  /\ promise = NoPromise
  /\ output = [stream |-> "stderr", text |-> <<>>]
  /\ delivered = <<>>
  /\ sdk = "none"
  /\ attempt = 0
  /\ lastError = "null"
  /\ ltCalls = 0
  /\ ltErrors = <<>>
  /\ ltSleptMs = 0
  /\ thrown = NoThrown
  /\ closeCalls = 0
  /\ closeThrew = FALSE

\* mcpize dev is not running
TunnelIdle ==
  /\ options = [tunnel |-> FALSE, provider |-> "none"]
  /\ reports = [t \in Providers |-> t = "localtunnel"]
  /\ dev = "off"
  /\ TunnelOff

\* nothing has been thrown
NoErr == [class |-> "none", statusCode |-> 0, code |-> <<>>,
          message |-> <<>>, isRetryable |-> FALSE]

\* withRetry() has not been called
RetryIdle ==
  /\ wr = "none"
  /\ wrAttempt = 0
  /\ wrLastError = NoErr
  /\ wrCalls = 0
  /\ wrErrors = <<>>
  /\ wrDelays = <<>>
  /\ wrThrown = NoErr


InitFiles(t) ==
  {Absent} \cup
  {Complete(JsonStringify([token |-> 1, refreshToken |-> 1,
                           expiresAt |-> (t \div MS_PER_S) + d]))
     : d \in {-100, 61}}

Init ==
  /\ now \in StartTimesMs
  /\ \E f \in InitFiles(now) :
       fs = [path \in Paths |-> IF path = CONFIG_FILE THEN f ELSE Absent]
  /\ issued = 1
  /\ pc = [p \in Procs |-> "idle"]
  /\ cmd = [p \in Procs |-> "none"]
  /\ flag = [p \in Procs |-> 0]
  /\ env = [p \in Procs |-> 0]
  /\ loc = [p \in Procs |-> L0]
  /\ hist = [p \in Procs |-> H0]
  /\ runs = 0
  /\ ScanIdle
  /\ TunnelIdle
  /\ RetryIdle

(* --------------------------- helpers ------------------------------------ *)
Goto(p, label) == pc' = [pc EXCEPT ![p] = label]

\* getValidToken() returns v; of its locals and history the values that
\* were compared and the counts are kept
Return(p, v, l, h) ==
  /\ Goto(p, "returned")
  /\ loc' = [loc EXCEPT ![p] =
               [L0 EXCEPT !.result = v, !.token = l.token, !.resp = l.resp,
                          !.orig = l.orig, !.cur = l.cur,
                          !.curAT = l.curAT]]
  /\ hist' = [hist EXCEPT ![p] = [h EXCEPT !.respMs = 0, !.setMs = 0]]

\* an exception leaves the session manager and ends the command
Throw(p) ==
  /\ Goto(p, "threw")
  /\ loc' = [loc EXCEPT ![p] = L0]
  /\ hist' = [hist EXCEPT ![p] = H0]

\* refreshAccessToken(): catch (error) { console.error(...); return null }
OnExceptionRethrow(p, l, h) == Throw(p)
OnException(p, l, h) == Return(p, 0, l, h)

\* the command has done its work; its locals are dead
Done(p) ==
  /\ Goto(p, "done")
  /\ loc' = [loc EXCEPT ![p] = L0]
  /\ hist' = [hist EXCEPT ![p] = H0]

(* ------------------ index.ts: one CLI invocation ------------------------ *)
\* preAction hook: setTokenOverride(opts.token) when --token is given; the
\* command then runs (logout reads neither the override nor MCPIZE_TOKEN,
\* so they are left unset for it)
Launch(p, entry) ==
  /\ pc[p] = "idle"
  /\ runs < MaxCommands
  /\ runs' = runs + 1
  /\ \E c \in {"api", "login", "logout"},
        f \in {0, -1}, e \in {0, -2} :
       /\ c = "logout" => f = 0 /\ e = 0
       /\ cmd' = [cmd EXCEPT ![p] = c]
       /\ flag' = [flag EXCEPT ![p] = f]
       /\ env' = [env EXCEPT ![p] = e]
       /\ Goto(p, IF c = "logout" THEN "clear_load" ELSE entry)
       /\ loc' = [loc EXCEPT ![p] =
                    [L0 EXCEPT !.after = IF c = "logout" THEN "exit"
                                         ELSE "none"]]
  /\ hist' = [hist EXCEPT ![p] = H0]
  /\ UNCHANGED <<fs, now, issued>>
  /\ UNCHANGED <<scanVars, tunnelVars, retryVars>>


(* ------------------ lib/auth.ts (current revision) ---------------------- *)
\* getValidToken(): the token that is returned without looking at the
\* session, or 0: tokenOverride first, then MCPIZE_TOKEN
DirectTokenEnvFirst(tokenOverride, envToken) ==
  IF Truthy(envToken) THEN envToken ELSE tokenOverride
DirectToken(tokenOverride, envToken) ==
  IF Truthy(tokenOverride) THEN tokenOverride ELSE envToken

\* getValidToken(): override, then MCPIZE_TOKEN, then getToken()
GVT_Start(p) ==
  /\ pc[p] = "gvt_start"
  /\ IF Truthy(DirectToken(flag[p], env[p]))
       THEN Return(p, DirectToken(flag[p], env[p]), loc[p], hist[p])
     ELSE LET token == LoadConfig(fs).token IN
          IF ~Truthy(token) THEN Return(p, 0, loc[p], hist[p])
          ELSE /\ Goto(p, "gvt_expired")
               /\ loc' = [loc EXCEPT ![p].token = token]
               /\ UNCHANGED hist
  /\ UNCHANGED <<fs, now, issued, cmd, flag, env, runs>>
  /\ UNCHANGED <<scanVars, tunnelVars, retryVars>>

\* getValidToken(): if (!isTokenExpired()) return token
GVT_IsExpired(p) ==
  /\ pc[p] = "gvt_expired"
  /\ IF ~IsTokenExpired(LoadConfig(fs), now)
       THEN Return(p, loc[p].token, loc[p], hist[p])
       ELSE Goto(p, "rat_start") /\ UNCHANGED <<loc, hist>>
  /\ UNCHANGED <<fs, now, issued, cmd, flag, env, runs>>
  /\ UNCHANGED <<scanVars, tunnelVars, retryVars>>

\* refreshAccessToken(): capture originalRefreshToken, short-circuit when
\* it is missing, otherwise send the request
RAT_Start(p) ==
  /\ pc[p] = "rat_start"
  /\ LET originalRefreshToken == LoadConfig(fs).refreshToken IN
     IF NoRefreshToken(originalRefreshToken)
       THEN Return(p, 0, loc[p], hist[p])
       ELSE /\ Goto(p, "rat_fetch")
            /\ loc' = [loc EXCEPT ![p].orig = originalRefreshToken]
            /\ hist' = [hist EXCEPT ![p].fetches = @ + 1]
  /\ UNCHANGED <<fs, now, issued, cmd, flag, env, runs>>
  /\ UNCHANGED <<scanVars, tunnelVars, retryVars>>

(* ------------------ the identity endpoint ------------------------------- *)
\* what the endpoint may answer to a request: a new pair, or a failure
Answers(failures) ==
  {Success(issued + 1, e) : e \in ExpiresInValues}
    \cup {Failure(k) : k \in failures}

\* POST /auth/v1/token?grant_type=refresh_token
Server_Refresh(p) ==
  /\ pc[p] = "rat_fetch"
  /\ \E r \in Answers({"reuse", "error", "nojson", "throw"}) :
       /\ loc' = [loc EXCEPT ![p].resp = r]
       /\ issued' = IF r.kind = "ok" THEN issued + 1 ELSE issued
  /\ Goto(p, "rat_resp")
  /\ UNCHANGED <<fs, now, cmd, flag, env, hist, runs>>
  /\ UNCHANGED <<scanVars, tunnelVars, retryVars>>

(* ------------------ refreshAccessToken(), after the fetch --------------- *)
\* setTimeout(resolve, 500 * (retry + 1))
RetryDelayFlat(retry) == REUSE_DELAY_MS
RetryDelay(retry) == REUSE_DELAY_MS * (retry + 1)

\* the reuse loop goes to sleep before its re-read number `retry'
Sleep(p, l, h, retry) ==
  /\ Goto(p, "retry_sleep")
  /\ loc' = [loc EXCEPT ![p] =
               [l EXCEPT !.retry = retry, !.wake = now + RetryDelay(retry)]]
  /\ hist' = [hist EXCEPT ![p] =
                [h EXCEPT !.sleptMs = @ + RetryDelay(retry)]]

\* the end of one iteration of for (retry = 0; retry < 3; retry++)
RetryBoundOneMore == REUSE_RETRIES + 1
RetryBound == REUSE_RETRIES

RetryNext(p, l, h) ==
  IF l.retry + 1 < RetryBound
    THEN Sleep(p, l, h, l.retry + 1)
    ELSE Return(p, 0, l, h)

\* !response.ok, and the catch of a rejected fetch
RAT_OnFailure(p) ==
  /\ pc[p] = "rat_resp"
  /\ loc[p].resp.kind # "ok"
  /\ IF loc[p].resp.kind = "reuse"
       THEN Sleep(p, loc[p], [hist[p] EXCEPT !.respMs = now], 0)
     ELSE IF loc[p].resp.kind = "throw"
       THEN OnException(p, loc[p], hist[p])
     ELSE Return(p, 0, loc[p], hist[p])
  /\ UNCHANGED <<fs, now, issued, cmd, flag, env, runs>>
  /\ UNCHANGED <<scanVars, tunnelVars, retryVars>>

\* the loop body up to the comparison of the re-read refresh token
Retry_Reread(p) ==
  /\ pc[p] = "retry_sleep"
  /\ now >= loc[p].wake
  /\ LET currentRefreshToken == LoadConfig(fs).refreshToken
         l == [loc[p] EXCEPT !.cur = currentRefreshToken]
         h == [hist[p] EXCEPT !.rereads = @ + 1]
     IN IF Truthy(currentRefreshToken) /\ currentRefreshToken # l.orig
          THEN /\ Goto(p, "retry_token")
               /\ loc' = [loc EXCEPT ![p] = l]
               /\ hist' = [hist EXCEPT ![p] = h]
          ELSE RetryNext(p, l, h)
  /\ UNCHANGED <<fs, now, issued, cmd, flag, env, runs>>
  /\ UNCHANGED <<scanVars, tunnelVars, retryVars>>

Retry_GetToken(p) ==
  /\ pc[p] = "retry_token"
  /\ LET currentAccessToken == LoadConfig(fs).token
         l == [loc[p] EXCEPT !.curAT = currentAccessToken]
     IN IF Truthy(currentAccessToken)
          THEN /\ Goto(p, "retry_expired")
               /\ loc' = [loc EXCEPT ![p] = l]
               /\ UNCHANGED hist
          ELSE RetryNext(p, l, [hist[p] EXCEPT !.sibling = "absent"])
  /\ UNCHANGED <<fs, now, issued, cmd, flag, env, runs>>
  /\ UNCHANGED <<scanVars, tunnelVars, retryVars>>

Retry_IsExpired(p) ==
  /\ pc[p] = "retry_expired"
  /\ IF ~IsTokenExpired(LoadConfig(fs), now)
       THEN Return(p, loc[p].curAT, loc[p],
                   [hist[p] EXCEPT !.sibling = "valid"])
       ELSE RetryNext(p, loc[p], [hist[p] EXCEPT !.sibling = "expired"])
  /\ UNCHANGED <<fs, now, issued, cmd, flag, env, runs>>
  /\ UNCHANGED <<scanVars, tunnelVars, retryVars>>

\* optimistic concurrency: has a sibling saved new tokens meanwhile?
SiblingRefreshedNever(currentRefreshToken, originalRefreshToken) == FALSE
SiblingRefreshed(currentRefreshToken, originalRefreshToken) ==
  Truthy(currentRefreshToken) /\ currentRefreshToken # originalRefreshToken

\* response.ok: re-read the refresh token
RAT_OnSuccess(p) ==
  /\ pc[p] = "rat_resp"
  /\ loc[p].resp.kind = "ok"
  /\ LET currentRefreshToken == LoadConfig(fs).refreshToken IN
       /\ loc' = [loc EXCEPT ![p].cur = currentRefreshToken,
                             ![p].after = "return"]
       /\ Goto(p, IF SiblingRefreshed(currentRefreshToken, loc[p].orig)
                    THEN "occ_token" ELSE "set_load")
  /\ hist' = [hist EXCEPT ![p].respMs = now]
  /\ UNCHANGED <<fs, now, issued, cmd, flag, env, runs>>
  /\ UNCHANGED <<scanVars, tunnelVars, retryVars>>

\* if (currentAccessToken && !isTokenExpired()) return currentAccessToken
SiblingTokenUsableAlways(currentAccessToken, expired) == TRUE
SiblingTokenUsable(currentAccessToken, expired) ==
  Truthy(currentAccessToken) /\ ~expired

OCC_GetToken(p) ==
  /\ pc[p] = "occ_token"
  /\ LET currentAccessToken == LoadConfig(fs).token IN
       /\ loc' = [loc EXCEPT ![p].curAT = currentAccessToken]
       /\ IF Truthy(currentAccessToken)
            THEN Goto(p, "occ_expired") /\ UNCHANGED hist
            ELSE /\ Goto(p, "set_load")
                 /\ hist' = [hist EXCEPT ![p].sibling = "absent"]
  /\ UNCHANGED <<fs, now, issued, cmd, flag, env, runs>>
  /\ UNCHANGED <<scanVars, tunnelVars, retryVars>>

OCC_IsExpired(p) ==
  /\ pc[p] = "occ_expired"
  /\ IF SiblingTokenUsable(loc[p].curAT, IsTokenExpired(LoadConfig(fs), now))
       THEN Return(p, loc[p].curAT, loc[p],
                   [hist[p] EXCEPT !.sibling = "valid"])
       ELSE /\ Goto(p, "set_load")
            /\ hist' = [hist EXCEPT ![p].sibling = "expired"]
            /\ UNCHANGED loc
  /\ UNCHANGED <<fs, now, issued, cmd, flag, env, runs>>
  /\ UNCHANGED <<scanVars, tunnelVars, retryVars>>

(* ------------------ lib/config.ts: writers ------------------------------ *)
\* writeFileSync(path, ...) has opened and truncated the file
BeginWrite(files, path) ==
  [files EXCEPT ![path] = [kind |-> "partial", doc |-> {}]]

\* renameSync(from, CONFIG_FILE)
RenameLost(files, from) == files
Rename(files, from) ==
  [path \in DOMAIN files |->
     IF path = CONFIG_FILE THEN files[from]
     ELSE IF path = from THEN Absent
     ELSE files[path]]

\* setSession(): loadConfig, the three assignments, and saveConfig up to
\* the opening of the temp file
Set_Load(p) ==
  /\ pc[p] = "set_load"
  /\ LET r == loc[p].resp
         config == SetSessionCfg(LoadConfig(fs), r.pair, r.pair,
                                 r.expiresIn, now)
     IN loc' = [loc EXCEPT ![p].content = JsonStringify(config)]
  /\ hist' = [hist EXCEPT ![p].setMs = now]
  /\ fs' = BeginWrite(fs, TempFile(p))
  /\ Goto(p, "save_write")
  /\ UNCHANGED <<now, issued, cmd, flag, env, runs>>
  /\ UNCHANGED <<scanVars, tunnelVars, retryVars>>

\* clearSession(): loadConfig, the three deletes, and saveConfig up to the
\* opening of the temp file
Clear_Load(p) ==
  /\ pc[p] = "clear_load"
  /\ loc' = [loc EXCEPT ![p].content =
               JsonStringify(ClearSessionCfg(LoadConfig(fs)))]
  /\ fs' = BeginWrite(fs, TempFile(p))
  /\ Goto(p, "save_write")
  /\ UNCHANGED <<now, issued, cmd, flag, env, hist, runs>>
  /\ UNCHANGED <<scanVars, tunnelVars, retryVars>>

\* saveConfig(): writeFileSync(tempFile, content) completes
Save_Write(p) ==
  /\ pc[p] = "save_write"
  /\ fs' = [fs EXCEPT ![TempFile(p)] = Complete(loc[p].content)]
  /\ Goto(p, "save_rename")
  /\ UNCHANGED <<now, issued, cmd, flag, env, loc, hist, runs>>
  /\ UNCHANGED <<scanVars, tunnelVars, retryVars>>

\* saveConfig(): renameSync(tempFile, CONFIG_FILE); the caller then returns
\* (refreshAccessToken returns data.access_token; the earlier getValidToken
\* returns null after its clearSession) or the command ends
Save_Rename(p) ==
  /\ pc[p] = "save_rename"
  /\ fs' = Rename(fs, TempFile(p))
  /\ LET h == [hist[p] EXCEPT !.writes = @ + 1] IN
     IF loc[p].after = "return"
       THEN Return(p, loc[p].resp.pair, loc[p], h)
     ELSE IF loc[p].after = "return_null"
       THEN Return(p, 0, loc[p], h)
     ELSE Done(p)
  /\ UNCHANGED <<now, issued, cmd, flag, env, runs>>
  /\ UNCHANGED <<scanVars, tunnelVars, retryVars>>

(* ------------------ commands/login.ts (current revision) ---------------- *)
\* loginCommand(): isAuthenticated() has returned; "Already logged in", or
\* emailPasswordLogin() sends the password grant, or browserLogin() waits
\* for the callback
Login_AfterAuth(p) ==
  /\ pc[p] = "returned"
  /\ cmd[p] = "login"
  /\ \/ /\ Truthy(loc[p].result)
        /\ Done(p)
     \/ /\ ~Truthy(loc[p].result)
        /\ Goto(p, "elogin_fetch")
        /\ loc' = [loc EXCEPT ![p] = L0]
        /\ hist' = [hist EXCEPT ![p] = [H0 EXCEPT !.fetches = 1]]
     \/ /\ ~Truthy(loc[p].result)
        /\ Goto(p, "blogin_wait")
        /\ loc' = [loc EXCEPT ![p] = L0]
        /\ hist' = [hist EXCEPT ![p] = H0]
  /\ UNCHANGED <<fs, now, issued, cmd, flag, env, runs>>
  /\ UNCHANGED <<scanVars, tunnelVars, retryVars>>

\* POST /auth/v1/token?grant_type=password
Server_Password(p) ==
  /\ pc[p] = "elogin_fetch"
  /\ \E r \in Answers({"error", "throw"}) :
       /\ loc' = [loc EXCEPT ![p].resp = r]
       /\ issued' = IF r.kind = "ok" THEN issued + 1 ELSE issued
  /\ Goto(p, "elogin_resp")
  /\ UNCHANGED <<fs, now, cmd, flag, env, hist, runs>>
  /\ UNCHANGED <<scanVars, tunnelVars, retryVars>>

\* emailPasswordLogin(): setSession on success; the catch block calls
\* clearSession() and exits
ELogin_OnResponse(p) ==
  /\ pc[p] = "elogin_resp"
  /\ Goto(p, IF loc[p].resp.kind = "ok" THEN "set_load" ELSE "clear_load")
  /\ loc' = [loc EXCEPT ![p].after = "exit"]
  /\ UNCHANGED <<fs, now, issued, cmd, flag, env, hist, runs>>
  /\ UNCHANGED <<scanVars, tunnelVars, retryVars>>

\* browserLogin(): the callback delivers the tokens the web app obtained,
\* or the wait fails (timeout, bad state, missing tokens) and the error is
\* rethrown without touching the session
BLogin_Callback(p) ==
  /\ pc[p] = "blogin_wait"
  /\ \/ \E r \in Answers({}) :
          /\ loc' = [loc EXCEPT ![p].resp = r, ![p].after = "exit"]
          /\ issued' = issued + 1
          /\ Goto(p, "set_load")
          /\ UNCHANGED hist
     \/ /\ Done(p)
        /\ UNCHANGED issued
  /\ UNCHANGED <<fs, now, cmd, flag, env, runs>>
  /\ UNCHANGED <<scanVars, tunnelVars, retryVars>>

(* ------------------ lib/auth.ts: requireAuth() -------------------------- *)
\* requireAuth(): getValidToken() has returned; a null token becomes the
\* error "Not authenticated. Run: mcpize login"
RequireAuth(p) ==
  /\ pc[p] = "returned"
  /\ cmd[p] = "api"
  /\ IF ~Truthy(loc[p].result) THEN Throw(p) ELSE Done(p)
  /\ UNCHANGED <<fs, now, issued, cmd, flag, env, runs>>
  /\ UNCHANGED <<scanVars, tunnelVars, retryVars>>

(* ------------------ process and clock ----------------------------------- *)
\* the command is over: an API command has used the token getValidToken()
\* returned; login and logout have printed their message
Finish(p) ==
  /\ \/ pc[p] \in {"done", "threw"}
     \/ pc[p] = "returned" /\ cmd[p] = "api"
  /\ Goto(p, "idle")
  /\ cmd' = [cmd EXCEPT ![p] = "none"]
  /\ flag' = [flag EXCEPT ![p] = 0]
  /\ env' = [env EXCEPT ![p] = 0]
  /\ loc' = [loc EXCEPT ![p] = L0]
  /\ hist' = [hist EXCEPT ![p] = H0]
  /\ UNCHANGED <<fs, now, issued, runs>>
  /\ UNCHANGED <<scanVars, tunnelVars, retryVars>>

\* the process is killed (SIGKILL, power loss) wherever it stands; the temp
\* file of an interrupted save stays behind under a name no later save
\* uses, so the slot of the next save is empty again
Kill(p) ==
  /\ pc[p] \notin {"idle", "done", "threw"}
  /\ Goto(p, "idle")
  /\ cmd' = [cmd EXCEPT ![p] = "none"]
  /\ flag' = [flag EXCEPT ![p] = 0]
  /\ env' = [env EXCEPT ![p] = 0]
  /\ loc' = [loc EXCEPT ![p] = L0]
  /\ hist' = [hist EXCEPT ![p] = H0]
  /\ fs' = [path \in DOMAIN fs |->
              IF path = TempFile(p) /\ path # CONFIG_FILE THEN Absent
              ELSE fs[path]]
  /\ UNCHANGED <<now, issued, runs>>
  /\ UNCHANGED <<scanVars, tunnelVars, retryVars>>

MaxNowMs == SetMax(StartTimesMs) + MaxTicks * SetMax(TickStepsMs)

Tick ==
  /\ \E d \in TickStepsMs :
       /\ now + d <= MaxNowMs
       /\ now' = now + d
  /\ UNCHANGED <<fs, issued, pc, cmd, flag, env, loc, hist, runs>>
  /\ UNCHANGED <<scanVars, tunnelVars, retryVars>>

Next ==
  \/ \E p \in Procs : Launch(p, "gvt_start")
  \/ \E p \in Procs : GVT_Start(p)
  \/ \E p \in Procs : GVT_IsExpired(p)
  \/ \E p \in Procs : RAT_Start(p)
  \/ \E p \in Procs : Server_Refresh(p)
  \/ \E p \in Procs : RAT_OnFailure(p)
  \/ \E p \in Procs : Retry_Reread(p)
  \/ \E p \in Procs : Retry_GetToken(p)
  \/ \E p \in Procs : Retry_IsExpired(p)
  \/ \E p \in Procs : RAT_OnSuccess(p)
  \/ \E p \in Procs : OCC_GetToken(p)
  \/ \E p \in Procs : OCC_IsExpired(p)
  \/ \E p \in Procs : Set_Load(p)
  \/ \E p \in Procs : Clear_Load(p)
  \/ \E p \in Procs : Save_Write(p)
  \/ \E p \in Procs : Save_Rename(p)
  \/ \E p \in Procs : Login_AfterAuth(p)
  \/ \E p \in Procs : Server_Password(p)
  \/ \E p \in Procs : ELogin_OnResponse(p)
  \/ \E p \in Procs : BLogin_Callback(p)
  \/ \E p \in Procs : RequireAuth(p)
  \/ \E p \in Procs : Finish(p)
  \/ \E p \in Procs : Kill(p)
  \/ Tick

Spec == Init /\ [][Next]_vars

(* ------------------ lib/auth.ts (earlier revision) ---------------------- *)
\* src/lib/auth.ts as it stands under that name: no reuse handling, no
\* optimistic check, and getValidToken() clears the session when the
\* refresh fails

LGVT_Start(p) ==
  /\ pc[p] = "lgvt_start"
  /\ IF Truthy(flag[p]) THEN Return(p, flag[p], loc[p], hist[p])
     ELSE IF Truthy(env[p]) THEN Return(p, env[p], loc[p], hist[p])
     ELSE LET token == LoadConfig(fs).token IN
          IF ~Truthy(token) THEN Return(p, 0, loc[p], hist[p])
          ELSE /\ Goto(p, "lgvt_expired")
               /\ loc' = [loc EXCEPT ![p].token = token]
               /\ UNCHANGED hist
  /\ UNCHANGED <<fs, now, issued, cmd, flag, env, runs>>
  /\ UNCHANGED <<scanVars, tunnelVars, retryVars>>

LGVT_IsExpired(p) ==
  /\ pc[p] = "lgvt_expired"
  /\ IF ~IsTokenExpired(LoadConfig(fs), now)
       THEN Return(p, loc[p].token, loc[p], hist[p])
       ELSE Goto(p, "lrat_start") /\ UNCHANGED <<loc, hist>>
  /\ UNCHANGED <<fs, now, issued, cmd, flag, env, runs>>
  /\ UNCHANGED <<scanVars, tunnelVars, retryVars>>

\* refreshAccessToken(): no refresh token -> null, and getValidToken()
\* goes on to clearSession(); otherwise the request is sent
LRAT_Start(p) ==
  /\ pc[p] = "lrat_start"
  /\ LET refreshToken == LoadConfig(fs).refreshToken IN
     IF ~Truthy(refreshToken)
       THEN /\ Goto(p, "clear_load")
            /\ loc' = [loc EXCEPT ![p].after = "return_null"]
            /\ UNCHANGED hist
       ELSE /\ Goto(p, "lrat_fetch")
            /\ loc' = [loc EXCEPT ![p].orig = refreshToken]
            /\ hist' = [hist EXCEPT ![p].fetches = @ + 1]
  /\ UNCHANGED <<fs, now, issued, cmd, flag, env, runs>>
  /\ UNCHANGED <<scanVars, tunnelVars, retryVars>>

LServer_Refresh(p) ==
  /\ pc[p] = "lrat_fetch"
  /\ \E r \in Answers({"reuse", "error", "nojson", "throw"}) :
       /\ loc' = [loc EXCEPT ![p].resp = r]
       /\ issued' = IF r.kind = "ok" THEN issued + 1 ELSE issued
  /\ Goto(p, "lrat_resp")
  /\ UNCHANGED <<fs, now, cmd, flag, env, hist, runs>>
  /\ UNCHANGED <<scanVars, tunnelVars, retryVars>>

\* ok: setSession and return the new token; any failure: refreshAccessToken
\* returns null and getValidToken() calls clearSession()
LRAT_OnResponse(p) ==
  /\ pc[p] = "lrat_resp"
  /\ IF loc[p].resp.kind = "ok"
       THEN /\ Goto(p, "set_load")
            /\ loc' = [loc EXCEPT ![p].after = "return"]
       ELSE /\ Goto(p, "clear_load")
            /\ loc' = [loc EXCEPT ![p].after = "return_null"]
  /\ UNCHANGED <<fs, now, issued, cmd, flag, env, hist, runs>>
  /\ UNCHANGED <<scanVars, tunnelVars, retryVars>>

(* ------------------ commands/login.ts (earlier revision) ---------------- *)
\* loginCommand(): when already authenticated the user is asked whether to
\* log in with a different account; the password grant is sent unless the
\* answer is no
LLogin_AfterAuth(p) ==
  /\ pc[p] = "returned"
  /\ cmd[p] = "login"
  /\ \/ /\ Truthy(loc[p].result)
        /\ Done(p)
     \/ /\ Goto(p, "elogin_fetch")
        /\ loc' = [loc EXCEPT ![p] = L0]
        /\ hist' = [hist EXCEPT ![p] = [H0 EXCEPT !.fetches = 1]]
  /\ UNCHANGED <<fs, now, issued, cmd, flag, env, runs>>
  /\ UNCHANGED <<scanVars, tunnelVars, retryVars>>

NextLegacy ==
  \/ \E p \in Procs : Launch(p, "lgvt_start")
  \/ \E p \in Procs : LGVT_Start(p)
  \/ \E p \in Procs : LGVT_IsExpired(p)
  \/ \E p \in Procs : LRAT_Start(p)
  \/ \E p \in Procs : LServer_Refresh(p)
  \/ \E p \in Procs : LRAT_OnResponse(p)
  \/ \E p \in Procs : Set_Load(p)
  \/ \E p \in Procs : Clear_Load(p)
  \/ \E p \in Procs : Save_Write(p)
  \/ \E p \in Procs : Save_Rename(p)
  \/ \E p \in Procs : LLogin_AfterAuth(p)
  \/ \E p \in Procs : Server_Password(p)
  \/ \E p \in Procs : ELogin_OnResponse(p)
  \/ \E p \in Procs : Finish(p)
  \/ \E p \in Procs : Kill(p)
  \/ Tick

SpecLegacy == Init /\ [][NextLegacy]_vars

(* ------------------ lib/config.ts: the token-only writers --------------- *)
\* setToken(token) and clearToken() are exported by lib/config.ts next to
\* setSession() and clearSession(); a caller of the module may use them
ConfigCall(p) ==
  /\ pc[p] = "idle"
  /\ runs < MaxCommands
  /\ runs' = runs + 1
  /\ \E c \in {"setToken", "clearToken"} :
       /\ cmd' = [cmd EXCEPT ![p] = c]
       /\ Goto(p, IF c = "setToken" THEN "settoken_load"
                  ELSE "cleartoken_load")
  /\ loc' = [loc EXCEPT ![p] = [L0 EXCEPT !.after = "exit"]]
  /\ hist' = [hist EXCEPT ![p] = H0]
  /\ UNCHANGED <<fs, now, issued, flag, env>>
  /\ UNCHANGED <<scanVars, tunnelVars, retryVars>>

\* setToken(token): loadConfig, config.token = token, saveConfig up to the
\* opening of the temp file; the token is one the endpoint has issued
SetToken_Load(p) ==
  /\ pc[p] = "settoken_load"
  /\ \E token \in 1..issued :
       loc' = [loc EXCEPT ![p].content =
                 JsonStringify([LoadConfig(fs) EXCEPT !.token = token])]
  /\ fs' = BeginWrite(fs, TempFile(p))
  /\ Goto(p, "save_write")
  /\ UNCHANGED <<now, issued, cmd, flag, env, hist, runs>>
  /\ UNCHANGED <<scanVars, tunnelVars, retryVars>>

\* clearToken(): loadConfig, delete config.token, saveConfig up to the
\* opening of the temp file
ClearToken_Load(p) ==
  /\ pc[p] = "cleartoken_load"
  /\ loc' = [loc EXCEPT ![p].content =
               JsonStringify([LoadConfig(fs) EXCEPT !.token = 0])]
  /\ fs' = BeginWrite(fs, TempFile(p))
  /\ Goto(p, "save_write")
  /\ UNCHANGED <<now, issued, cmd, flag, env, hist, runs>>
  /\ UNCHANGED <<scanVars, tunnelVars, retryVars>>

NextConfigApi ==
  \/ Next
  \/ \E p \in Procs : ConfigCall(p)
  \/ \E p \in Procs : SetToken_Load(p)
  \/ \E p \in Procs : ClearToken_Load(p)

SpecConfigApi == Init /\ [][NextConfigApi]_vars

(* ------------------ a single-use rotating refresh token ----------------- *)
\* the identity endpoint with refresh token rotation and reuse detection:
\* the refresh token of the pair issued last is the only one it accepts, and
\* accepting it issues the next pair; any other refresh token has been used
\* and is rejected with the reuse message.  A request may also fail before
\* the endpoint has acted on it (HTTP 5xx, no connection)
RotatingAnswers(refreshToken) ==
  (IF refreshToken = issued
     THEN {Success(issued + 1, e) : e \in ExpiresInValues}
     ELSE {Failure("reuse")})
    \cup {Failure("error"), Failure("throw")}

\* POST /auth/v1/token?grant_type=refresh_token with
\* { refresh_token: originalRefreshToken }
Server_RefreshRotating(p) ==
  /\ pc[p] = "rat_fetch"
  /\ \E r \in RotatingAnswers(loc[p].orig) :
       /\ loc' = [loc EXCEPT ![p].resp = r]
       /\ issued' = IF r.kind = "ok" THEN issued + 1 ELSE issued
  /\ Goto(p, "rat_resp")
  /\ UNCHANGED <<fs, now, cmd, flag, env, hist, runs>>
  /\ UNCHANGED <<scanVars, tunnelVars, retryVars>>

\* a command that needs the session: no --token, no MCPIZE_TOKEN
ApiCommand(p) ==
  /\ pc[p] = "idle"
  /\ runs < MaxCommands
  /\ runs' = runs + 1
  /\ cmd' = [cmd EXCEPT ![p] = "api"]
  /\ Goto(p, "gvt_start")
  /\ loc' = [loc EXCEPT ![p] = L0]
  /\ hist' = [hist EXCEPT ![p] = H0]
  /\ UNCHANGED <<fs, now, issued, flag, env>>
  /\ UNCHANGED <<scanVars, tunnelVars, retryVars>>

\* there is a session, issued by the endpoint as its latest pair
InitRotating ==
  /\ Init
  /\ fs[CONFIG_FILE].kind = "complete"

\* no login, no logout, no process is killed; the branch of
\* refreshAccessToken() that examines a sibling's session after a
\* successful refresh is never entered (part of C29)
NextRotating ==
  \/ \E p \in Procs : ApiCommand(p)
  \/ \E p \in Procs : GVT_Start(p)
  \/ \E p \in Procs : GVT_IsExpired(p)
  \/ \E p \in Procs : RAT_Start(p)
  \/ \E p \in Procs : Server_RefreshRotating(p)
  \/ \E p \in Procs : RAT_OnFailure(p)
  \/ \E p \in Procs : Retry_Reread(p)
  \/ \E p \in Procs : Retry_GetToken(p)
  \/ \E p \in Procs : Retry_IsExpired(p)
  \/ \E p \in Procs : RAT_OnSuccess(p)
  \/ \E p \in Procs : Set_Load(p)
  \/ \E p \in Procs : Save_Write(p)
  \/ \E p \in Procs : Save_Rename(p)
  \/ \E p \in Procs : RequireAuth(p)
  \/ \E p \in Procs : Finish(p)
  \/ Tick

SpecRotating == InitRotating /\ [][NextRotating]_vars

(* ------------------ refreshAccessToken(): a failed response ------------- *)
\* if (!response.ok): the response of a refresh request has arrived with a
\* failure status and some body
InitScan ==
  /\ SessionIdle
  /\ TunnelIdle
  /\ RetryIdle
  /\ body \in Bodies
  /\ errorMessage = BodyText.Http
  /\ isAlreadyUsed = FALSE
  /\ scan = "received"

\* error = await response.json(); errorMessage = ...; a body that does not
\* parse is caught and leaves errorMessage and isAlreadyUsed as they are
Scan_ParseBody ==
  /\ scan = "received"
  /\ IF body.json
       THEN /\ errorMessage' = ErrorMessage(body, errorMessage)
            /\ scan' = "parsed"
       ELSE /\ scan' = "classified"
            /\ UNCHANGED errorMessage
  /\ UNCHANGED <<body, isAlreadyUsed>>
  /\ UNCHANGED <<sessionVars, tunnelVars, retryVars>>

\* isAlreadyUsed = ...includes("already used") || ...includes(...)
Scan_Detect ==
  /\ scan = "parsed"
  /\ isAlreadyUsed' = IsAlreadyUsed(errorMessage)
  /\ scan' = "classified"
  /\ UNCHANGED <<body, errorMessage>>
  /\ UNCHANGED <<sessionVars, tunnelVars, retryVars>>

\* if (isAlreadyUsed) { the re-read loop } else { return null }
Scan_Dispatch ==
  /\ scan = "classified"
  /\ scan' = IF isAlreadyUsed THEN "retry" ELSE "failed"
  /\ UNCHANGED <<body, errorMessage, isAlreadyUsed>>
  /\ UNCHANGED <<sessionVars, tunnelVars, retryVars>>

NextScan ==
  \/ Scan_ParseBody
  \/ Scan_Detect
  \/ Scan_Dispatch

SpecScan == InitScan /\ [][NextScan]_vars

(* ------------------ tunnel/providers/cloudflared.ts: the URL ------------ *)
SCHEME == <<"h", "t", "t", "p", "s", ":", "/", "/">>
SUFFIX == <<".", "t", "r", "y", "c", "l", "o", "u", "d", "f", "l", "a", "r",
            "e", ".", "c", "o", "m">>

\* /https:\/\/[a-z0-9-]+\.trycloudflare\.com/i tried at position i of the
\* lower-cased text: the position of the last character of the match, or 0
MatchEnd(low, i) ==
  LET n == Len(low)
      h0 == i + Len(SCHEME)
      hostEnds ==
        {j \in h0..n :
           \A k \in h0..j :
             low[k] \in {LowerCase[c] : c \in DOMAIN LowerCase}
                          \cup {"0", "1", "2", "3", "4", "5", "6", "7", "8",
                                "9", "-"}}
      ends == {j \in hostEnds :
                 /\ j + Len(SUFFIX) <= n
                 /\ SubSeq(low, j + 1, j + Len(SUFFIX)) = SUFFIX}
  IN IF h0 - 1 <= n /\ SubSeq(low, i, h0 - 1) = SCHEME /\ ends # {}
       THEN SetMax(ends) + Len(SUFFIX)
       ELSE 0

\* output.match(...): match[0] of the leftmost match, <<>> when there is
\* none
Match(str) ==
  LET low == ToLowerCase(str)
      starts == {i \in 1..Len(str) : MatchEnd(low, i) > 0}
  IN IF starts = {} THEN <<>>
     ELSE SubSeq(str, SetMin(starts), MatchEnd(low, SetMin(starts)))

URL_A == SCHEME \o <<"a", "b">> \o SUFFIX

\* what the cloudflared child may write before it ends
Outputs ==
  {[stream |-> "stderr", text |-> <<"|", " ">> \o URL_A \o <<" ", "|">>],
   [stream |-> "stderr",
    text |-> SCHEME \o <<"C", "-", "1">> \o SUFFIX \o <<" ">> \o URL_A],
   [stream |-> "stdout", text |-> URL_A],
   [stream |-> "stderr", text |-> <<"E", "R", "R">>]}

ElapsedStepMs == 10000

(* ------------------ tunnel/index.ts: createTunnel() --------------------- *)

\* mcpize dev is about to spawn the dev server
InitTunnel ==
  /\ SessionIdle
  /\ ScanIdle
  /\ RetryIdle
  /\ options \in {[tunnel |-> FALSE, provider |-> "none"]}
                   \cup [tunnel : {TRUE},
                         provider : {"none", "other"} \cup Providers]
  /\ reports \in {r \in [Providers -> BOOLEAN] : r["localtunnel"]}
  /\ dev = "starting"
  /\ TunnelOff

\* getProviderHint(providerType)
getProviderHintNone(providerType) == ""
getProviderHint(providerType) ==
  CASE providerType = "ngrok" -> "Set NGROK_AUTHTOKEN environment variable."
    [] providerType = "cloudflared" -> "Install cloudflared CLI:"
    [] OTHER -> ""

\* what createTunnel() prints after detectBestProvider()
AnnouncementSilent(isDefault) == "auto"
Announcement(isDefault) == IF isDefault THEN "fallback" ELSE "auto"

\* new Promise(...): resolve() and reject() act on a pending promise only
SettleOverwrite(pr, outcome) == outcome
Settle(pr, outcome) == IF pr.state = "pending" THEN outcome ELSE pr

Fulfilled(url) ==
  [state |-> "fulfilled", url |-> url, error |-> "none", code |-> 0]

\* reject(new Error(...)): the kind of the message and the exit code in it
RejectedNoCode(error, code) ==
  [state |-> "rejected", url |-> <<>>, error |-> error, code |-> 0]
Rejected(error, code) ==
  [state |-> "rejected", url |-> <<>>, error |-> error, code |-> code]

\* dev: tunnel = await createTunnel(...) resumes
TunnelCreated ==
  /\ dev' = "serving"
  /\ tunnel' = "set"
  /\ ct' = "resolved"
  /\ UNCHANGED ctError

\* dev: catch (err) { "Continuing without tunnel..." }
TunnelFailedAbort(err) ==
  /\ dev' = "exited"
  /\ tunnel' = "null"
  /\ ct' = "rejected"
  /\ ctError' = err
TunnelFailed(err) ==
  /\ dev' = "serving"
  /\ tunnel' = "null"
  /\ ct' = "rejected"
  /\ ctError' = err

\* provider.connect(port) is called: cloudflared spawns its child, arms the
\* startup timer and returns a pending promise; ngrok and localtunnel call
\* into their library
Connect(t) ==
  /\ connects' = [connects EXCEPT ![t] = @ + 1]
  /\ ct' = "connecting"
  /\ IF t = "cloudflared"
       THEN /\ proc' \in {"running", "spawn_failed"}
            /\ output' \in Outputs
            /\ timer' = "armed"
            /\ promise' = [NoPromise EXCEPT !.state = "pending"]
            /\ UNCHANGED sdkVars
       ELSE /\ sdk' = "connecting"
            /\ attempt' = IF t = "localtunnel" THEN 1 ELSE 0
            /\ ltCalls' = IF t = "localtunnel" THEN 1 ELSE 0
            /\ UNCHANGED <<lastError, ltErrors, ltSleptMs, thrown>>
            /\ UNCHANGED <<proc, output, timer, promise>>
  /\ UNCHANGED <<procEnd, resolved, elapsed, delivered>>

\* dev: const child = spawn(cmd, args, ...); `let tunnel = null'; the signal
\* handlers and the handlers of the child's close and error are registered
Dev_Spawn ==
  /\ dev = "starting"
  /\ dev' = "waiting"
  /\ child' = "running"
  /\ UNCHANGED <<envVars, tunnel, signals, cleanups, exitedBy, poll,
                 isHealthy, ctVars, cfVars, sdkVars, closeVars>>
  /\ UNCHANGED <<sessionVars, scanVars, retryVars>>

\* dev: if (options.tunnel) { ...; if (!isHealthy) { "Continuing without
\* tunnel" } else { tunnel = await createTunnel(...) } }
SetsUpTunnelUngated(tunnelOption, healthy) == tunnelOption
SetsUpTunnel(tunnelOption, healthy) == tunnelOption /\ healthy

\* dev: one turn of the loop of waitForServer() (the POST to /mcp is
\* answered by a healthy server, or is not); waitForServer() returns true
\* at once, or false after maxAttempts turns; without --tunnel nothing is
\* waited for.  When it has returned its loop counter is dead, and if the
\* tunnel is to be set up createTunnel(port, options.provider) runs up to
\* its first await
Dev_WaitForServer ==
  /\ dev = "waiting"
  /\ \E healthy \in BOOLEAN :
       LET providerType == options.provider
           failed == options.tunnel /\ ~healthy
       IN IF failed /\ poll + 1 < maxAttempts
            THEN /\ poll' = poll + 1
                 /\ UNCHANGED <<dev, isHealthy, tunnel, ct, ctError>>
          ELSE
            /\ poll' = 0
            /\ isHealthy' = IF ~options.tunnel THEN "pending"
                             ELSE IF healthy THEN "yes" ELSE "no"
            /\ IF ~SetsUpTunnel(options.tunnel, healthy)
                 THEN dev' = "serving" /\ UNCHANGED <<tunnel, ct, ctError>>
               ELSE IF providerType = "none"
                 THEN /\ dev' = "creating"
                      /\ ct' = "probe_cloudflared"
                      /\ UNCHANGED <<tunnel, ctError>>
               ELSE IF providerType \in Providers
                 THEN /\ dev' = "creating"
                      /\ ct' = "probe_hint"
                      /\ UNCHANGED <<tunnel, ctError>>
               ELSE TunnelFailed([kind |-> "unknown",
                                  provider |-> providerType, hint |-> ""])
  /\ UNCHANGED <<envVars, signals, cleanups, exitedBy, child, probed, chosen,
                 announce, connects, cfVars, sdkVars, closeVars>>
  /\ UNCHANGED <<sessionVars, scanVars, retryVars>>

\* createTunnel(): available = await provider.isAvailable() of the hinted
\* provider
CT_HintAvailable ==
  /\ ct = "probe_hint"
  /\ dev = "creating"
  /\ LET providerType == options.provider IN
       /\ probed' = Append(probed, providerType)
       /\ IF ~reports[providerType]
            THEN /\ TunnelFailed([kind |-> "unavailable",
                                  provider |-> providerType,
                                  hint |-> getProviderHint(providerType)])
                 /\ UNCHANGED <<chosen, announce, connects, cfVars, sdkVars>>
            ELSE /\ chosen' = providerType
                 /\ announce' = "using"
                 /\ Connect(providerType)
                 /\ UNCHANGED <<dev, tunnel, ctError>>
  /\ UNCHANGED <<envVars, signals, cleanups, exitedBy, healthVars, closeVars>>
  /\ UNCHANGED <<sessionVars, scanVars, retryVars>>

\* detectBestProvider(): await cloudflaredProvider.isAvailable()
CT_DetectCloudflared ==
  /\ ct = "probe_cloudflared"
  /\ dev = "creating"
  /\ probed' = Append(probed, "cloudflared")
  /\ IF reports["cloudflared"]
       THEN /\ chosen' = "cloudflared"
            /\ announce' = Announcement(FALSE)
            /\ Connect("cloudflared")
       ELSE /\ ct' = "probe_ngrok"
            /\ UNCHANGED <<chosen, announce, connects, cfVars, sdkVars>>
  /\ UNCHANGED <<envVars, devVars, ctError, closeVars>>
  /\ UNCHANGED <<sessionVars, scanVars, retryVars>>

\* detectBestProvider(): await ngrokProvider.isAvailable(), and localtunnel
\* as the default
CT_DetectNgrok ==
  /\ ct = "probe_ngrok"
  /\ dev = "creating"
  /\ probed' = Append(probed, "ngrok")
  /\ IF reports["ngrok"]
       THEN /\ chosen' = "ngrok"
            /\ announce' = Announcement(FALSE)
            /\ Connect("ngrok")
       ELSE /\ chosen' = "localtunnel"
            /\ announce' = Announcement(TRUE)
            /\ Connect("localtunnel")
  /\ UNCHANGED <<envVars, devVars, ctError, closeVars>>
  /\ UNCHANGED <<sessionVars, scanVars, retryVars>>

(* ------------------ tunnel/providers/cloudflared.ts: connect() ---------- *)
\* the continuation of the promise connect() returned: it runs when the
\* promise settles, before any other event is handled
Continue(settled) ==
  IF promise.state = "pending" /\ settled.state = "fulfilled"
    THEN TunnelCreated
  ELSE IF promise.state = "pending" /\ settled.state = "rejected"
    THEN TunnelFailed([kind |-> "connect", provider |-> chosen, hint |-> ""])
  ELSE UNCHANGED <<dev, tunnel, ct, ctError>>

\* clearTimeout(timeout)
ClearTimeoutNoop(t) == t
ClearTimeout(t) == IF t = "armed" THEN "cleared" ELSE t

\* ChildProcess.kill(signal): the signal reaches a child that still runs;
\* the call throws for an unknown signal name only
KillThrowsWhenGone(cp, signal) == cp # "running"
KillThrows(cp, signal) == signal \notin {"SIGTERM", "SIGINT", "SIGKILL"}
ProcKill(cp) == IF cp = "running" THEN "killed" ELSE cp

\* proc.stderr.on("data", ...): the child writes its next k characters;
\* nothing listens on stdout
CF_Data ==
  /\ chosen = "cloudflared"
  /\ dev # "exited"
  /\ proc \in {"running", "killed", "exited"}
  /\ \E k \in 1..Len(output.text) :
       LET data == SubSeq(output.text, 1, k)
           match == Match(data)
           hit == output.stream = "stderr" /\ ~resolved /\ match # <<>>
           settled == IF hit THEN Settle(promise, Fulfilled(match))
                            ELSE promise
       IN /\ output' = [output EXCEPT !.text = SubSeq(@, k + 1, Len(@))]
          /\ delivered' = delivered \o data
          /\ resolved' = (resolved \/ hit)
          /\ timer' = IF hit THEN ClearTimeout(timer) ELSE timer
          /\ promise' = settled
          /\ Continue(settled)
  /\ UNCHANGED <<envVars, signals, cleanups, exitedBy, healthVars, probed,
                 chosen,
                 announce, connects, proc, procEnd, elapsed, sdkVars,
                 closeVars>>
  /\ UNCHANGED <<sessionVars, scanVars, retryVars>>

\* setTimeout(() => { if (!resolved) { proc.kill(); reject(...) } },
\* STARTUP_TIMEOUT_MS)
CF_Timeout ==
  /\ timer = "armed"
  /\ elapsed >= STARTUP_TIMEOUT_MS
  /\ dev # "exited"
  /\ timer' = "fired"
  /\ IF ~resolved
       THEN LET settled == Settle(promise, Rejected("timeout", 0)) IN
            /\ proc' = ProcKill(proc)
            /\ procEnd' = IF proc = "running"
                            THEN [by |-> "timer", code |-> -1]
                            ELSE procEnd
            /\ promise' = settled
            /\ Continue(settled)
       ELSE UNCHANGED <<proc, procEnd, promise, dev, tunnel, ct, ctError>>
  /\ UNCHANGED <<envVars, signals, cleanups, exitedBy, healthVars, probed,
                 chosen,
                 announce, connects, resolved, elapsed, output, delivered,
                 sdkVars, closeVars>>
  /\ UNCHANGED <<sessionVars, scanVars, retryVars>>

\* the child ends of its own accord
CF_Exit ==
  /\ proc = "running"
  /\ dev # "exited"
  /\ proc' = "exited"
  /\ \E code \in {0, 1} : procEnd' = [by |-> "self", code |-> code]
  /\ UNCHANGED <<envVars, devVars, ctVars, resolved, timer, elapsed,
                 promise, output, delivered, sdkVars, closeVars>>
  /\ UNCHANGED <<sessionVars, scanVars, retryVars>>

\* proc.on("close", (code) => ...); code is null (-1) after a signal
CF_Close ==
  /\ proc \in {"killed", "exited"}
  /\ dev # "exited"
  /\ proc' = "closed"
  /\ IF ~resolved
       THEN LET settled == Settle(promise, Rejected("exit", procEnd.code)) IN
            /\ resolved' = TRUE
            /\ timer' = ClearTimeout(timer)
            /\ promise' = settled
            /\ Continue(settled)
       ELSE UNCHANGED <<resolved, timer, promise, dev, tunnel, ct, ctError>>
  /\ UNCHANGED <<envVars, signals, cleanups, exitedBy, healthVars, probed,
                 chosen,
                 announce, connects, procEnd, elapsed, output, delivered,
                 sdkVars, closeVars>>
  /\ UNCHANGED <<sessionVars, scanVars, retryVars>>

\* proc.on("error", (err) => ...): the child could not be spawned; the
\* close event that follows finds resolved set
CF_SpawnError ==
  /\ proc = "spawn_failed"
  /\ dev # "exited"
  /\ proc' = "closed"
  /\ procEnd' = [by |-> "spawn", code |-> -2]
  /\ IF ~resolved
       THEN LET settled == Settle(promise, Rejected("spawn", -2)) IN
            /\ resolved' = TRUE
            /\ timer' = ClearTimeout(timer)
            /\ promise' = settled
            /\ Continue(settled)
       ELSE UNCHANGED <<resolved, timer, promise, dev, tunnel, ct, ctError>>
  /\ UNCHANGED <<envVars, signals, cleanups, exitedBy, healthVars, probed,
                 chosen,
                 announce, connects, elapsed, output, delivered, sdkVars,
                 closeVars>>
  /\ UNCHANGED <<sessionVars, scanVars, retryVars>>

\* time passes while the startup timer is armed (a failure to spawn is
\* reported at once)
TunnelTick ==
  /\ timer = "armed"
  /\ proc # "spawn_failed"
  /\ dev # "exited"
  /\ elapsed < (MaxElapsedTicks * ElapsedStepMs)
  /\ elapsed' = elapsed + ElapsedStepMs
  /\ UNCHANGED <<envVars, devVars, ctVars, proc, procEnd, resolved, timer,
                 promise, output, delivered, sdkVars, closeVars>>
  /\ UNCHANGED <<sessionVars, scanVars, retryVars>>

(* ------------------ tunnel/providers/ngrok.ts, localtunnel.ts ----------- *)
\* ngrok connect(): await ngrok.forward(...) resolves with a listener that
\* has a url, or it rejects (or the url is missing and connect throws)
NG_Forward ==
  /\ chosen = "ngrok"
  /\ sdk = "connecting"
  /\ dev # "exited"
  /\ \/ sdk' = "open" /\ TunnelCreated
     \/ /\ sdk' = "failed"
        /\ TunnelFailed([kind |-> "connect", provider |-> chosen,
                         hint |-> ""])
  /\ UNCHANGED <<envVars, signals, cleanups, exitedBy, healthVars, probed,
                 chosen,
                 announce, connects, cfVars, attempt, lastError, ltCalls,
                 ltErrors, ltSleptMs, thrown, closeVars>>
  /\ UNCHANGED <<sessionVars, scanVars, retryVars>>


\* lastError = err instanceof Error ? err : new Error(String(err))
LastErrorFirst(last, err) == IF last = "null" THEN err ELSE last
LastError(last, err) == err

\* if (attempt < MAX_RETRIES) { ...; await setTimeout(RETRY_DELAY_MS) }
DelayAfterAlways(n) == TRUE
DelayAfter(n) == n < MAX_RETRIES

\* throw new Error(`Failed to create tunnel after ${MAX_RETRIES} attempts:
\* ${lastError?.message}`)
Thrown(last) == [attempts |-> MAX_RETRIES, message |-> last]

\* localtunnel connect(): await localtunnel.default({ port }) of the current
\* turn of for (attempt = 1; attempt <= MAX_RETRIES; attempt++) settles; a
\* failure is followed by the delay, or by the throw after the last turn
LT_Attempt ==
  /\ chosen = "localtunnel"
  /\ sdk = "connecting"
  /\ dev # "exited"
  /\ \/ /\ sdk' = "open"
        /\ TunnelCreated
        /\ UNCHANGED <<attempt, lastError, ltCalls, ltErrors, ltSleptMs,
                       thrown>>
     \/ \E err \in {"connection refused", "tunnel server offline"} :
          /\ lastError' = LastError(lastError, err)
          /\ ltErrors' = Append(ltErrors, err)
          /\ IF DelayAfter(attempt)
               THEN /\ sdk' = "sleeping"
                    /\ ltSleptMs' = ltSleptMs + RETRY_DELAY_MS
                    /\ UNCHANGED <<attempt, ltCalls, thrown, dev, tunnel, ct,
                                   ctError>>
               ELSE /\ sdk' = "failed"
                    /\ thrown' = Thrown(lastError')
                    /\ TunnelFailed([kind |-> "connect", provider |-> chosen,
                                     hint |-> ""])
                    /\ UNCHANGED <<attempt, ltCalls, ltSleptMs>>
  /\ UNCHANGED <<envVars, signals, cleanups, exitedBy, healthVars, probed,
                 chosen,
                 announce, connects, cfVars, closeVars>>
  /\ UNCHANGED <<sessionVars, scanVars, retryVars>>

\* localtunnel connect(): the delay is over; attempt++ and, while attempt <=
\* MAX_RETRIES, the next call of the library
LT_Retry ==
  /\ chosen = "localtunnel"
  /\ sdk = "sleeping"
  /\ dev # "exited"
  /\ attempt' = attempt + 1
  /\ IF attempt + 1 <= MAX_RETRIES
       THEN /\ sdk' = "connecting"
            /\ ltCalls' = ltCalls + 1
            /\ UNCHANGED <<thrown, dev, tunnel, ct, ctError>>
       ELSE /\ sdk' = "failed"
            /\ thrown' = Thrown(lastError)
            /\ TunnelFailed([kind |-> "connect", provider |-> chosen,
                             hint |-> ""])
            /\ UNCHANGED ltCalls
  /\ UNCHANGED <<envVars, signals, cleanups, exitedBy, healthVars, probed,
                 chosen,
                 announce, connects, cfVars, lastError, ltErrors, ltSleptMs,
                 closeVars>>
  /\ UNCHANGED <<sessionVars, scanVars, retryVars>>

\* the session of the library ends without close() (the service drops it)
SDK_Terminated ==
  /\ sdk = "open"
  /\ dev # "exited"
  /\ sdk' = "terminated"
  /\ UNCHANGED <<envVars, devVars, ctVars, cfVars, attempt, lastError,
                 ltCalls, ltErrors, ltSleptMs, thrown, closeVars>>
  /\ UNCHANGED <<sessionVars, scanVars, retryVars>>

(* ------------------ TunnelConnection.close() ---------------------------- *)
\* ngrok.disconnect(url) and localtunnel's tunnel.close() close a session
\* that is open and do nothing otherwise
SdkClose(session) == IF session = "open" THEN "closed" ELSE session

\* close: async () => { proc.kill("SIGTERM") } for cloudflared,
\* await ngrok.disconnect(url) for ngrok, tunnel.close() for localtunnel
Close ==
  /\ closeCalls' = closeCalls + 1
  /\ IF chosen = "cloudflared"
       THEN /\ closeThrew' = (closeThrew \/ KillThrows(proc, "SIGTERM"))
            /\ proc' = ProcKill(proc)
            /\ procEnd' = IF proc = "running"
                            THEN [by |-> "close", code |-> -1]
                            ELSE procEnd
            /\ UNCHANGED sdk
       ELSE /\ sdk' = SdkClose(sdk)
            /\ UNCHANGED <<closeThrew, proc, procEnd>>

(* ------------------ commands/dev.ts: signals and the dev server --------- *)
\* process.on("SIGINT" / "SIGTERM", () => void cleanup()): cleanup() closes
\* the tunnel if `tunnel' is set, kills the dev server and exits; with
\* ngrok the exit waits for disconnect() to resolve; a close() that throws
\* makes cleanup() reject, which ends the process
Dev_Signal ==
  /\ dev \in {"waiting", "creating", "serving"}
  /\ signals < MaxSignals
  /\ signals' = signals + 1
  /\ IF tunnel = "set"
       THEN /\ Close
            /\ IF closeThrew'
                 THEN /\ dev' = "exited"
                      /\ exitedBy' = "rejection"
                      /\ UNCHANGED <<cleanups, child>>
               ELSE IF chosen = "ngrok"
                 THEN /\ cleanups' = cleanups + 1
                      /\ UNCHANGED <<dev, exitedBy, child>>
               ELSE /\ dev' = "exited"
                    /\ exitedBy' = "signal"
                    /\ child' = ProcKill(child)
                    /\ UNCHANGED cleanups
       ELSE /\ dev' = "exited"
            /\ exitedBy' = "signal"
            /\ child' = ProcKill(child)
            /\ UNCHANGED <<cleanups, closeVars, proc, procEnd, sdk>>
  /\ UNCHANGED <<envVars, tunnel, poll, isHealthy, ctVars, resolved, timer,
                 elapsed, promise, output, delivered, attempt, lastError,
                 ltCalls, ltErrors, ltSleptMs, thrown>>
  /\ UNCHANGED <<sessionVars, scanVars, retryVars>>

\* cleanup() after `await tunnel.close()': child.kill("SIGTERM");
\* process.exit(0)
Dev_CleanupResume ==
  /\ cleanups > 0
  /\ dev # "exited"
  /\ cleanups' = cleanups - 1
  /\ child' = ProcKill(child)
  /\ dev' = "exited"
  /\ exitedBy' = "signal"
  /\ UNCHANGED <<envVars, tunnel, signals, poll, isHealthy, ctVars, cfVars,
                 sdkVars, closeVars>>
  /\ UNCHANGED <<sessionVars, scanVars, retryVars>>

\* child.on("close", (code) => { ...; process.exit(code ?? 0) })
Dev_ChildClose ==
  /\ dev \in {"waiting", "creating", "serving"}
  /\ child = "running"
  /\ child' = "closed"
  /\ dev' = "exited"
  /\ exitedBy' = "child_close"
  /\ UNCHANGED <<envVars, tunnel, signals, cleanups, poll, isHealthy, ctVars,
                 cfVars, sdkVars, closeVars>>
  /\ UNCHANGED <<sessionVars, scanVars, retryVars>>

\* child.on("error", (err) => { ...; process.exit(1) })
Dev_ChildError ==
  /\ dev \in {"waiting", "creating", "serving"}
  /\ child = "running"
  /\ child' = "failed"
  /\ dev' = "exited"
  /\ exitedBy' = "child_error"
  /\ UNCHANGED <<envVars, tunnel, signals, cleanups, poll, isHealthy, ctVars,
                 cfVars, sdkVars, closeVars>>
  /\ UNCHANGED <<sessionVars, scanVars, retryVars>>

NextTunnel ==
  \/ Dev_Spawn
  \/ Dev_WaitForServer
  \/ CT_HintAvailable
  \/ CT_DetectCloudflared
  \/ CT_DetectNgrok
  \/ CF_Data
  \/ CF_Timeout
  \/ CF_Exit
  \/ CF_Close
  \/ CF_SpawnError
  \/ TunnelTick
  \/ NG_Forward
  \/ LT_Attempt
  \/ LT_Retry
  \/ SDK_Terminated
  \/ Dev_Signal
  \/ Dev_CleanupResume
  \/ Dev_ChildClose
  \/ Dev_ChildError

SpecTunnel == InitTunnel /\ [][NextTunnel]_vars

(* ------------------ tunnel/index.ts: a caller of createTunnel() --------- *)
\* createTunnel() is exported: whoever holds the connection it returned
\* may call close() at any time, and again
Conn_Close ==
  /\ ct = "resolved"
  /\ dev # "exited"
  /\ closeCalls < MaxCloses
  /\ Close
  /\ UNCHANGED <<envVars, devVars, ctVars, resolved, timer, elapsed,
                 promise, output, delivered, attempt, lastError, ltCalls,
                 ltErrors, ltSleptMs, thrown>>
  /\ UNCHANGED <<sessionVars, scanVars, retryVars>>

NextTunnelApi ==
  \/ NextTunnel
  \/ Conn_Close

SpecTunnelApi == InitTunnel /\ [][NextTunnelApi]_vars

(* ------------------ lib/api.ts: withRetry() ------------------------------ *)
\* strings of lib/api.ts, as sequences of characters
Strings ==
  [ENOTFOUND |->
     <<"E", "N", "O", "T", "F", "O", "U", "N", "D">>,
   ETIMEDOUT |->
     <<"E", "T", "I", "M", "E", "D", "O", "U", "T">>,
   ECONNRESET |->
     <<"E", "C", "O", "N", "N", "R", "E", "S", "E", "T">>,
   ECONNREFUSED |->
     <<"E", "C", "O", "N", "N", "R", "E", "F", "U", "S", "E", "D">>,
   UND_ERR_CONNECT_TIMEOUT |->
     <<"U", "N", "D", "_", "E", "R", "R", "_", "C", "O", "N", "N", "E",
       "C", "T", "_", "T", "I", "M", "E", "O", "U", "T">>,
   UNKNOWN |->
     <<"U", "N", "K", "N", "O", "W", "N">>,
   EPIPE |->
     <<"E", "P", "I", "P", "E">>,
   fetch_failed |->
     <<"f", "e", "t", "c", "h", " ", "f", "a", "i", "l", "e", "d">>,
   network |->
     <<"n", "e", "t", "w", "o", "r", "k">>,
   getaddrinfo |->
     <<"g", "e", "t", "a", "d", "d", "r", "i", "n", "f", "o">>,
   timeout |->
     <<"t", "i", "m", "e", "o", "u", "t">>,
   CannotConnect |->
     <<"C", "a", "n", "n", "o", "t", " ", "c", "o", "n", "n", "e", "c",
       "t", " ", "t", "o", " ", "M", "C", "P", "i", "z", "e", " ", "A",
       "P", "I", ".", " ", "C", "h", "e", "c", "k", " ", "y", "o", "u",
       "r", " ", "i", "n", "t", "e", "r", "n", "e", "t", " ", "c", "o",
       "n", "n", "e", "c", "t", "i", "o", "n", ".">>,
   TimedOut |->
     <<"R", "e", "q", "u", "e", "s", "t", " ", "t", "i", "m", "e", "d",
       " ", "o", "u", "t", ".", " ", "P", "l", "e", "a", "s", "e", " ",
       "t", "r", "y", " ", "a", "g", "a", "i", "n", ".">>,
   Refused |->
     <<"C", "o", "n", "n", "e", "c", "t", "i", "o", "n", " ", "r", "e",
       "f", "u", "s", "e", "d", ".", " ", "T", "h", "e", " ", "s", "e",
       "r", "v", "i", "c", "e", " ", "m", "a", "y", " ", "b", "e", " ",
       "t", "e", "m", "p", "o", "r", "a", "r", "i", "l", "y", " ", "u",
       "n", "a", "v", "a", "i", "l", "a", "b", "l", "e", ".">>,
   Reset |->
     <<"C", "o", "n", "n", "e", "c", "t", "i", "o", "n", " ", "w", "a",
       "s", " ", "r", "e", "s", "e", "t", ".", " ", "P", "l", "e", "a",
       "s", "e", " ", "t", "r", "y", " ", "a", "g", "a", "i", "n", ".">>,
   NetworkFailed |->
     <<"N", "e", "t", "w", "o", "r", "k", " ", "r", "e", "q", "u", "e",
       "s", "t", " ", "f", "a", "i", "l", "e", "d", ".", " ", "C", "h",
       "e", "c", "k", " ", "y", "o", "u", "r", " ", "i", "n", "t", "e",
       "r", "n", "e", "t", " ", "c", "o", "n", "n", "e", "c", "t", "i",
       "o", "n", ".">>,
   GetAddrInfo |->
     <<"g", "e", "t", "a", "d", "d", "r", "i", "n", "f", "o", " ", "E",
       "N", "O", "T", "F", "O", "U", "N", "D", " ", "a", "p", "i", ".",
       "m", "c", "p", "i", "z", "e", ".", "c", "o", "m">>,
   ConnectTimeout |->
     <<"c", "o", "n", "n", "e", "c", "t", " ", "E", "T", "I", "M", "E",
       "D", "O", "U", "T">>,
   ReadReset |->
     <<"r", "e", "a", "d", " ", "E", "C", "O", "N", "N", "R", "E", "S",
       "E", "T">>,
   WriteEpipe |->
     <<"w", "r", "i", "t", "e", " ", "E", "P", "I", "P", "E">>,
   NetworkTimeout |->
     <<"n", "e", "t", "w", "o", "r", "k", " ", "t", "i", "m", "e", "o",
       "u", "t", " ", "a", "t", ":", " ", "h", "t", "t", "p", "s", ":",
       "/", "/", "a", "p", "i", ".", "m", "c", "p", "i", "z", "e", ".",
       "c", "o", "m">>,
   NotAuthenticated |->
     <<"N", "o", "t", " ", "a", "u", "t", "h", "e", "n", "t", "i", "c",
       "a", "t", "e", "d", ".", " ", "R", "u", "n", ":", " ", "m", "c",
       "p", "i", "z", "e", " ", "l", "o", "g", "i", "n">>,
   ApiFailed |->
     <<"A", "P", "I", " ", "r", "e", "q", "u", "e", "s", "t", " ", "f",
       "a", "i", "l", "e", "d">>,
   UnexpectedToken |->
     <<"U", "n", "e", "x", "p", "e", "c", "t", "e", "d", " ", "t", "o",
       "k", "e", "n", " ", "<", " ", "i", "n", " ", "J", "S", "O", "N">>]

\* RETRY_CONFIG
RETRY_CONFIG ==
  [maxAttempts |-> 3,
   baseDelayMs |-> 1000,
   retryableErrors |-> {Strings.ENOTFOUND, Strings.ETIMEDOUT,
                        Strings.ECONNRESET, Strings.ECONNREFUSED,
                        Strings.UND_ERR_CONNECT_TIMEOUT},
   retryableStatusCodes |-> {429, 503, 504},
   nonRetryableStatusCodes |-> {401, 403, 404, 422}]

\* new APIError(message, statusCode, body, isRetryable) as request() throws
\* it for a response that is not ok
APIError(statusCode) ==
  [class |-> "APIError", statusCode |-> statusCode, code |-> <<>>,
   message |-> Strings.ApiFailed,
   isRetryable |-> statusCode \in RETRY_CONFIG.retryableStatusCodes]

\* new NetworkError(message, code, isRetryable)
NetworkError(message, code, isRetryable) ==
  [class |-> "NetworkError", statusCode |-> 0, code |-> code,
   message |-> message, isRetryable |-> isRetryable]

\* an Error (TypeError, SyntaxError, a system error with a code) that is
\* neither of the two classes; code <<>> is no code
PlainError(message, code) ==
  [class |-> "Error", statusCode |-> 0, code |-> code, message |-> message,
   isRetryable |-> FALSE]

\* a value that is thrown and is no Error
NonError(text) ==
  [class |-> "string", statusCode |-> 0, code |-> <<>>, message |-> text,
   isRetryable |-> FALSE]

\* wrapNetworkError(error): what request() throws when fetch() rejects
wrapNetworkError(error) ==
  IF error.class \in {"APIError", "NetworkError"} THEN error
  ELSE LET code == OrElse(error.code, Strings.UNKNOWN)
           msg == error.message
       IN IF code = Strings.ENOTFOUND \/ Includes(msg, Strings.getaddrinfo)
            THEN NetworkError(Strings.CannotConnect, code, TRUE)
          ELSE IF code = Strings.ETIMEDOUT \/ Includes(msg, Strings.timeout)
            THEN NetworkError(Strings.TimedOut, code, TRUE)
          ELSE IF code = Strings.ECONNREFUSED
            THEN NetworkError(Strings.Refused, code, TRUE)
          ELSE IF code = Strings.ECONNRESET
            THEN NetworkError(Strings.Reset, code, TRUE)
          ELSE IF Includes(msg, Strings.fetch_failed)
            THEN NetworkError(Strings.NetworkFailed, code, TRUE)
          ELSE NetworkError(msg, code, FALSE)

\* what fetch() may reject with: undici's TypeError "fetch failed", which
\* has no code of its own, and errors that carry a system error code
FetchErrors ==
  {PlainError(Strings.fetch_failed, <<>>),
   PlainError(Strings.GetAddrInfo, Strings.ENOTFOUND),
   PlainError(Strings.ConnectTimeout, Strings.ETIMEDOUT),
   PlainError(Strings.ReadReset, Strings.ECONNRESET),
   PlainError(Strings.NetworkTimeout, <<>>),
   PlainError(Strings.WriteEpipe, Strings.EPIPE)}

\* what fn() may reject with: the errors of request() (an APIError, a
\* wrapped fetch error, "Not authenticated", a body that does not parse),
\* a fetch error that was not wrapped, and a value that is no Error
FnErrors ==
  {APIError(c) : c \in {401, 429, 500, 503, 504}}
    \cup {wrapNetworkError(e) : e \in FetchErrors}
    \cup {PlainError(Strings.NotAuthenticated, <<>>),
          PlainError(Strings.UnexpectedToken, <<>>),
          PlainError(Strings.fetch_failed, <<>>),
          NonError(Strings.network)}

\* isRetryableError(error)
isRetryableErrorByFlag(error) == error.isRetryable
isRetryableError(error) ==
  IF error.class = "APIError"
    THEN error.statusCode \in RETRY_CONFIG.retryableStatusCodes
  ELSE IF error.class \in {"NetworkError", "Error"}
    THEN \/ error.code # <<>> /\ error.code \in RETRY_CONFIG.retryableErrors
         \/ Includes(error.message, Strings.fetch_failed)
         \/ Includes(error.message, Strings.network)
  ELSE FALSE

\* RETRY_CONFIG.baseDelayMs * Math.pow(2, attempt - 1)
BackoffDelay(n) == RETRY_CONFIG.baseDelayMs * 2 ^ (n - 1)

\* lastError = error instanceof Error ? error : new Error(String(error))
AsError(error) ==
  IF error.class = "string" THEN PlainError(error.message, <<>>) ELSE error

\* withRetry(fn) has been called and the first fn() is under way
InitRetry ==
  /\ SessionIdle
  /\ ScanIdle
  /\ TunnelIdle
  /\ wr = "calling"
  /\ wrAttempt = 1
  /\ wrLastError = NoErr
  /\ wrCalls = 1
  /\ wrErrors = <<>>
  /\ wrDelays = <<>>
  /\ wrThrown = NoErr

\* return await fn(): the call has resolved
WR_Resolve ==
  /\ wr = "calling"
  /\ wr' = "returned"
  /\ UNCHANGED <<wrAttempt, wrLastError, wrCalls, wrErrors, wrDelays,
                 wrThrown>>
  /\ UNCHANGED <<sessionVars, scanVars, tunnelVars>>

\* catch (error): the call has rejected; rethrow at once what is not
\* retryable and what the last attempt threw, otherwise sleep(delay)
WR_Catch ==
  /\ wr = "calling"
  /\ \E error \in FnErrors :
       /\ wrLastError' = AsError(error)
       /\ wrErrors' = Append(wrErrors, error)
       /\ IF ~isRetryableError(error)
               \/ wrAttempt = RETRY_CONFIG.maxAttempts
            THEN /\ wr' = "threw"
                 /\ wrThrown' = error
                 /\ UNCHANGED wrDelays
            ELSE /\ wr' = "sleeping"
                 /\ wrDelays' = Append(wrDelays, BackoffDelay(wrAttempt))
                 /\ UNCHANGED wrThrown
  /\ UNCHANGED <<wrAttempt, wrCalls>>
  /\ UNCHANGED <<sessionVars, scanVars, tunnelVars>>

\* sleep(delay) is over: attempt++ and the next fn(), or throw lastError
\* when the loop has ended
WR_Wake ==
  /\ wr = "sleeping"
  /\ wrAttempt' = wrAttempt + 1
  /\ IF wrAttempt + 1 <= RETRY_CONFIG.maxAttempts
       THEN /\ wr' = "calling"
            /\ wrCalls' = wrCalls + 1
            /\ UNCHANGED wrThrown
       ELSE /\ wr' = "threw"
            /\ wrThrown' = wrLastError
            /\ UNCHANGED wrCalls
  /\ UNCHANGED <<wrLastError, wrErrors, wrDelays>>
  /\ UNCHANGED <<sessionVars, scanVars, tunnelVars>>

NextRetry ==
  \/ WR_Resolve
  \/ WR_Catch
  \/ WR_Wake

SpecRetry == InitRetry /\ [][NextRetry]_vars

(* ======================= properties ===================================== *)
FailureKinds == {"reuse", "error", "nojson", "throw"}

\* the process has just been answered by getValidToken()
Returned(p) == pc[p] = "returned"

\* the step is the one in which getValidToken() of p returns
Returns(p) == pc[p] # "returned" /\ pc'[p] = "returned"

\* p's re-read of the refresh token found another one than it had sent
SawOtherRefreshToken(l) == l.cur # 0 /\ l.cur # l.orig

\* isTokenExpired() would answer false on this config at time t
NotExpired(cfg, t) == cfg.expiresAt # 0 /\ t <= (cfg.expiresAt - 60) * 1000

(* C1: when the refresh request has succeeded and the re-read refresh token
   is another one than the one sent (a sibling has saved a session
   meanwhile), the call does not return before it has examined the sibling's
   persisted session, and when it finds that session's access token present
   and not expired it returns that token in the same step, without having
   written the session file. *)
C1_SiblingSessionPreferred ==
  [][\A p \in Procs :
       (loc[p].resp.kind = "ok" /\ SawOtherRefreshToken(loc[p]))
         => /\ Returns(p) => hist'[p].sibling # "none"
            /\ (/\ pc[p] = "occ_expired"
                /\ pc'[p] \notin {"occ_expired", "idle"}
                /\ NotExpired(LoadConfig(fs), now))
                 => /\ pc'[p] = "returned"
                    /\ loc'[p].result = loc[p].curAT
                    /\ loc'[p].result # 0
                    /\ loc'[p].result # loc[p].resp.pair
                    /\ hist'[p].writes = 0
                    /\ fs' = fs]_vars

C1_Witness ==
  \E p \in Procs :
    /\ Returned(p) /\ loc[p].resp.kind = "ok" /\ SawOtherRefreshToken(loc[p])
    /\ hist[p].sibling = "valid"
    /\ loc[p].result = loc[p].curAT
    /\ hist[p].writes = 0
    /\ LoadConfig(fs).token = loc[p].result

\* the delays the reuse loop has asked for after k re-reads
SleptAfter(k) == (REUSE_DELAY_MS * k * (k + 1)) \div 2

(* C2: after a reuse rejection the call returns after 1 to 3 re-reads of the
   refresh token, the k-th of them no earlier than 500 + ... + 500k ms after
   the rejection; a re-read that finds another refresh token and a persisted
   access token that is not expired makes the call return that access token
   at once; a token the call returns is such a token; exactly one request
   was sent and nothing was written. *)
C2_ReuseResolvedByReread ==
  [][\A p \in Procs :
       /\ (/\ pc[p] = "retry_expired"
           /\ pc'[p] \notin {"retry_expired", "idle"}
           /\ NotExpired(LoadConfig(fs), now))
            => /\ pc'[p] = "returned"
               /\ loc'[p].result = loc[p].curAT
               /\ loc'[p].result # 0
       /\ (Returns(p) /\ loc[p].resp.kind = "reuse")
         => /\ hist'[p].fetches = 1
            /\ hist'[p].writes = 0
            /\ fs' = fs
            /\ issued' = issued
            /\ hist'[p].rereads \in 1..3
            /\ hist'[p].sleptMs = SleptAfter(hist'[p].rereads)
            /\ now >= hist[p].respMs + SleptAfter(hist'[p].rereads)
            /\ loc'[p].result # 0
                 => /\ SawOtherRefreshToken(loc'[p])
                    /\ loc'[p].result = loc'[p].curAT
                    /\ hist'[p].sibling = "valid"
                    /\ ~(now > (LoadConfig(fs).expiresAt - 60) * 1000)
                    /\ LoadConfig(fs).expiresAt # 0]_vars

C2_Witness ==
  \E p \in Procs :
    /\ Returned(p) /\ loc[p].resp.kind = "reuse"
    /\ loc[p].result # 0
    /\ loc[p].result = loc[p].curAT
    /\ hist[p].rereads = 2
    /\ hist[p].fetches = 1

(* C3: when the refresh has failed (non-OK response with any message or an
   unparsable body, rejected fetch, or reuse with the retries exhausted),
   getValidToken returns null and has not written the session file. *)
C3_FailedRefreshKeepsSession ==
  \A p \in Procs :
    (Returned(p) /\ loc[p].resp.kind \in FailureKinds)
      => /\ hist[p].writes = 0
         /\ loc[p].resp.kind # "reuse" => loc[p].result = 0

\* some field of the session is there
SessionPresent(cfg) ==
  cfg.token # 0 \/ cfg.refreshToken # 0 \/ cfg.expiresAt # 0

(* C4: a step in which a field of the persisted session goes from present
   to absent is the rename of a logout command. *)
C4_OnlyLogoutClears ==
  [][\A k \in {"token", "refreshToken", "expiresAt"} :
       (LoadConfig(fs)[k] # 0 /\ LoadConfig(fs')[k] = 0)
         => \E p \in Procs :
              /\ cmd[p] = "logout"
              /\ pc[p] = "save_rename"
              /\ pc'[p] = "done"]_vars

(* C5: whatever loadConfig observes changes only in the rename of a save,
   and then from the complete previous content to the complete content that
   save was given; at every other step, a kill between the temp-file write
   and the rename included, it observes what it observed before, and
   CONFIG_FILE never holds a partly written document. *)
C5_AtomicReplace ==
  [][/\ fs'[CONFIG_FILE].kind # "partial"
     /\ (fs'[CONFIG_FILE] # fs[CONFIG_FILE]
           \/ LoadConfig(fs') # LoadConfig(fs))
          => \E p \in Procs :
               /\ pc[p] = "save_rename"
               /\ pc'[p] # "save_rename"
               /\ fs'[CONFIG_FILE] = Complete(loc[p].content)]_vars

\* a save stands between its temp-file write and its rename while the
\* session file still holds the complete previous content and a sibling is
\* about to read it
C5_Witness ==
  \E p \in Procs, q \in Procs :
    /\ p # q
    /\ pc[p] = "save_rename"
    /\ fs[CONFIG_FILE].kind = "complete"
    /\ SessionPresent(LoadConfig(fs))
    /\ fs[CONFIG_FILE] # Complete(loc[p].content)
    /\ pc[q] \in {"gvt_start", "gvt_expired", "rat_start"}

(* C6: in every state of the session file, token and refreshToken are both
   absent or are the two tokens of one issued pair. *)
C6_TokensOfOnePair ==
  LoadConfig(fs).token = LoadConfig(fs).refreshToken

(* C7: getValidToken returns the override when one is set, otherwise the
   MCPIZE_TOKEN token when it is non-empty, and only otherwise a token of
   the session; in the first two cases no request has been sent and the
   session file has not been written. *)
C7_SourcePriority ==
  \A p \in Procs :
    Returned(p)
      => /\ flag[p] # 0
              => /\ loc[p].result = flag[p]
                 /\ hist[p].fetches = 0 /\ hist[p].writes = 0
         /\ (flag[p] = 0 /\ env[p] # 0)
              => /\ loc[p].result = env[p]
                 /\ hist[p].fetches = 0 /\ hist[p].writes = 0
         /\ (flag[p] = 0 /\ env[p] = 0)
              => loc[p].result \in 0..issued

\* both are set and the persisted session is expired
C7_Witness ==
  \E p \in Procs :
    /\ Returned(p)
    /\ flag[p] # 0 /\ env[p] # 0
    /\ loc[p].result = flag[p]
    /\ LoadConfig(fs).token # 0
    /\ now > (LoadConfig(fs).expiresAt - 60) * 1000

\* the persisted access token is there and outside the expiry margin
StoredTokenValid(cfg, t) ==
  /\ cfg.token # 0
  /\ cfg.expiresAt # 0
  /\ t <= (cfg.expiresAt - 60) * 1000

(* C8: a getValidToken call without override and environment token that
   finds the persisted access token valid at its expiry check returns the
   token it read, has sent no request and written nothing, whatever calls
   went before it. *)
C8_ValidTokenNoTraffic ==
  [][\A p \in Procs :
       (/\ pc[p] = "gvt_expired"
        /\ pc'[p] \notin {"gvt_expired", "idle"}
        /\ StoredTokenValid(LoadConfig(fs), now))
         => /\ pc'[p] = "returned"
            /\ loc'[p].result = loc[p].token
            /\ loc'[p].result # 0
            /\ hist'[p].fetches = 0
            /\ hist'[p].writes = 0
            /\ fs' = fs
            /\ issued' = issued]_vars

\* a second invocation has been answered from the still valid session
C8_Witness ==
  \E p \in Procs :
    /\ Returned(p)
    /\ runs = 2
    /\ flag[p] = 0 /\ env[p] = 0
    /\ loc[p].result # 0
    /\ loc[p].result = LoadConfig(fs).token
    /\ StoredTokenValid(LoadConfig(fs), now)
    /\ hist[p].fetches = 0 /\ hist[p].writes = 0

(* C9: when the refresh succeeds and the re-read refresh token is the one
   that was sent, getValidToken returns the new access token, and the rename
   that precedes the return is the call's only write and leaves in the
   session file the new access token, the new refresh token and
   expiresAt = floor(time of the setSession call / 1000) + expires_in. *)
C9_RefreshPersistsTriple ==
  [][\A p \in Procs :
       (/\ Returns(p)
        /\ loc[p].resp.kind = "ok"
        /\ loc[p].cur = loc[p].orig)
         => /\ pc[p] = "save_rename"
            /\ loc'[p].result = loc[p].resp.pair
            /\ hist'[p].writes = 1
            /\ hist'[p].fetches = 1
            /\ LoadConfig(fs') =
                 [token |-> loc[p].resp.pair,
                  refreshToken |-> loc[p].resp.pair,
                  expiresAt |-> (hist[p].setMs \div 1000)
                                  + loc[p].resp.expiresIn]
            /\ hist[p].setMs <= now
            /\ hist[p].setMs >= hist[p].respMs]_vars

\* the new session is in the file and the setSession call fell inside a
\* second
C9_Witness ==
  \E p \in Procs :
    /\ Returned(p)
    /\ loc[p].resp.kind = "ok"
    /\ loc[p].cur = loc[p].orig
    /\ loc[p].result = loc[p].resp.pair
    /\ LoadConfig(fs).token = loc[p].result
    /\ LoadConfig(fs).refreshToken = loc[p].result
    /\ now % 1000 # 0
    /\ LoadConfig(fs).expiresAt = (now \div 1000) + loc[p].resp.expiresIn

(* C10: when refreshAccessToken finds no persisted refresh token, the call
   returns null in that step: no request is sent and nothing is written. *)
C10_NoRefreshTokenShortCircuit ==
  [][\A p \in Procs :
       (/\ pc[p] = "rat_start"
        /\ pc'[p] \notin {"rat_start", "idle"}
        /\ LoadConfig(fs).refreshToken = 0)
         => /\ pc'[p] = "returned"
            /\ loc'[p].result = 0
            /\ hist'[p].fetches = 0
            /\ hist'[p].writes = 0
            /\ fs' = fs
            /\ issued' = issued]_vars

\* the access token was there and expired, the refresh token was gone
C10_Witness ==
  \E p \in Procs :
    /\ Returned(p)
    /\ flag[p] = 0 /\ env[p] = 0
    /\ loc[p].token # 0
    /\ loc[p].result = 0
    /\ loc[p].resp.kind = "none"
    /\ hist[p].fetches = 0
    /\ LoadConfig(fs).refreshToken = 0

\* p stands inside a call of getValidToken()
InGetValidToken(p) ==
  \/ pc[p] \in {"gvt_start", "gvt_expired", "rat_start", "rat_fetch",
                "rat_resp", "retry_sleep", "retry_token", "retry_expired",
                "occ_token", "occ_expired"}
  \/ pc[p] \in {"set_load", "save_write", "save_rename"}
       /\ loc[p].after = "return"

(* C11: no step of a call of getValidToken() throws; the call ends by
   returning, and it returns null when the session has no token (and no
   override or MCPIZE_TOKEN is set), when the refresh token is missing, and
   when the refresh request fails with an HTTP error, an unparsable error
   body or a network exception; an exception leaves the session manager
   only in requireAuth(), exactly when getValidToken() has returned null. *)
C11_GetValidTokenNeverThrows ==
  [][\A p \in Procs :
       /\ InGetValidToken(p) => pc'[p] # "threw"
       /\ (InGetValidToken(p) /\ ~InGetValidToken(p)' /\ pc'[p] # "idle")
            => pc'[p] = "returned"
       /\ (/\ Returns(p)
           /\ \/ /\ pc[p] = "gvt_start"
                 /\ flag[p] = 0 /\ env[p] = 0
                 /\ LoadConfig(fs).token = 0
              \/ /\ pc[p] = "rat_start"
                 /\ LoadConfig(fs).refreshToken = 0
              \/ loc[p].resp.kind \in {"error", "nojson", "throw"})
            => loc'[p].result = 0
       /\ (pc[p] # "threw" /\ pc'[p] = "threw")
            => /\ pc[p] = "returned"
               /\ cmd[p] = "api"
               /\ loc[p].result = 0
       /\ (pc[p] = "returned" /\ cmd[p] = "api" /\ pc'[p] = "done")
            => loc[p].result # 0]_vars

\* the fetch of the refresh request was rejected and getValidToken()
\* returned null
C11_Witness ==
  \E p \in Procs :
    /\ Returned(p)
    /\ loc[p].resp.kind = "throw"
    /\ loc[p].result = 0
    /\ hist[p].fetches = 1

\* the claim's reading of the reuse signal: one of the four message fields
\* contains "already used" or "reuse", whatever the letter case
REUSE == <<"r", "e", "u", "s", "e">>
SignalIn(str) ==
  Includes(ToLowerCase(str), ALREADY_USED) \/ Includes(ToLowerCase(str), REUSE)
SignalAnywhere(b) ==
  \/ SignalIn(b.error) \/ SignalIn(b.error_description)
  \/ SignalIn(b.msg) \/ SignalIn(b.message)

(* C12 as stated: a failure whose body carries "already used" or "reuse",
   in any letter case, in any of error, error_description, msg or message
   is handled by the re-read protocol. *)
C12_SignalInAnyField ==
  (scan \in {"retry", "failed"} /\ body.json /\ SignalAnywhere(body))
    => scan = "retry"

\* the first non-empty of error_description, msg, message and error
FirstMessage(b) ==
  IF b.error_description # <<>> THEN b.error_description
  ELSE IF b.msg # <<>> THEN b.msg
  ELSE IF b.message # <<>> THEN b.message
  ELSE b.error

(* C12 as amended: a failure whose body parses and in which the first
   non-empty of error_description, msg, message and error (in this order)
   contains "already used" or "refresh_token_reuse", in any letter case, is
   handled by the re-read protocol. *)
C12_SignalInChosenMessage ==
  (/\ scan \in {"retry", "failed"}
   /\ body.json
   /\ \/ Includes(ToLowerCase(FirstMessage(body)), ALREADY_USED)
      \/ Includes(ToLowerCase(FirstMessage(body)), REFRESH_TOKEN_REUSE))
    => scan = "retry"

\* a mixed-case signal in msg, behind an empty error_description and in
\* front of an error without the signal, started the re-read protocol
C12_Witness ==
  /\ scan = "retry"
  /\ body.error_description = <<>>
  /\ body.msg = BodyText.AlreadyUsed
  /\ body.error = BodyText.InvalidGrant

\* the number of connect() calls over all providers
ConnectCalls ==
  connects["localtunnel"] + connects["ngrok"] + connects["cloudflared"]

\* createTunnel() has passed its choice of a provider
Selected == ct \in {"connecting", "resolved", "rejected"}

(* C13: without a provider hint createTunnel() chooses cloudflared if it
   reports available, else ngrok if it reports available, else localtunnel;
   localtunnel is chosen exactly when the two others report unavailable and
   exactly then the fallback warning is printed; the chosen provider's
   connect() has been called once and no other provider's connect() at
   all. *)
C13_AutoSelection ==
  options.provider = "none"
    => /\ ~Selected => (ConnectCalls = 0 /\ chosen = "none")
       /\ Selected =>
            /\ chosen = IF reports["cloudflared"] THEN "cloudflared"
                        ELSE IF reports["ngrok"] THEN "ngrok"
                        ELSE "localtunnel"
            /\ (chosen = "localtunnel")
                 <=> (~reports["cloudflared"] /\ ~reports["ngrok"])
            /\ (announce = "fallback") <=> (chosen = "localtunnel")
            /\ connects[chosen] = 1
            /\ ConnectCalls = 1

\* both cloudflared and ngrok reported unavailable and localtunnel was
\* connected with the warning
C13_Witness ==
  /\ options.provider = "none"
  /\ probed = <<"cloudflared", "ngrok">>
  /\ chosen = "localtunnel"
  /\ announce = "fallback"
  /\ connects["localtunnel"] = 1

(* C14: with a provider hint createTunnel() asks that provider only; if it
   reports unavailable createTunnel() rejects with an error that names the
   provider and carries a non-empty remediation hint, and no connect() has
   been called; if it reports available its connect() has been called once
   and no other provider's. *)
C14_HintedProviderOnly ==
  (options.provider \in Providers /\ ct \notin {"none", "probe_hint"})
    => /\ probed = <<options.provider>>
       /\ IF reports[options.provider]
            THEN /\ chosen = options.provider
                 /\ connects[options.provider] = 1
                 /\ ConnectCalls = 1
            ELSE /\ ct = "rejected"
                 /\ ctError.kind = "unavailable"
                 /\ ctError.provider = options.provider
                 /\ ctError.hint # ""
                 /\ chosen = "none"
                 /\ ConnectCalls = 0

\* --provider ngrok without NGROK_AUTHTOKEN was rejected
C14_Witness ==
  /\ options.provider = "ngrok"
  /\ ~reports["ngrok"]
  /\ ct = "rejected"
  /\ ctError.kind = "unavailable"
  /\ dev = "serving"

(* C15: when the dev process has exited, no provider subprocess that was
   spawned is still running and no library session is still open, that is,
   every tunnel that was established or whose creation had spawned a
   subprocess was closed (or had ended) before the exit. *)
C15_TunnelClosedBeforeExit ==
  dev = "exited" => (proc # "running" /\ sdk # "open")

\* the connection has nothing left to tear down
Gone == proc # "running" /\ sdk # "open"

(* C16: no call of close() throws or rejects; a call on a connection that
   was closed before, or whose subprocess or library session has ended,
   changes nothing; after one call nothing is left to close. *)
C16_CloseIdempotent ==
  [][closeCalls' = closeCalls + 1
       => /\ ~closeThrew'
          /\ Gone'
          /\ closeCalls >= 1 => Gone
          /\ Gone => (proc' = proc /\ procEnd' = procEnd /\ sdk' = sdk)]_vars

\* close() was called twice on a cloudflared connection
C16_Witness ==
  /\ chosen = "cloudflared"
  /\ closeCalls = 2
  /\ ~closeThrew
  /\ procEnd.by = "close"

(* C17: the promise of the subprocess provider's connect() goes from
   pending to fulfilled or to rejected and then never changes, whatever
   event is handled later; so does the outcome of createTunnel(). *)
C17_OutcomeFinal ==
  [][/\ promise.state \in {"fulfilled", "rejected"} => promise' = promise
     /\ promise.state = "pending"
          => promise'.state \in {"pending", "fulfilled", "rejected"}
     /\ ct \in {"resolved", "rejected"} => (ct' = ct /\ ctError' = ctError)
    ]_vars

\* connect() failed with the startup timeout and a URL arrived afterwards
C17_Witness ==
  /\ promise.state = "rejected"
  /\ promise.error = "timeout"
  /\ resolved
  /\ Match(delivered) # <<>>

(* C18: the startup timer does not fire before 30 s; when it fires and no
   URL has matched, the child is killed if it still runs and connect()
   fails with the startup-timeout error; a match cancels the timer, and
   once connect() has resolved the timer is not armed and does not kill
   the child. *)
C18_StartupTimeout ==
  [][/\ (timer = "armed" /\ timer' = "fired")
          => /\ elapsed >= 30000
             /\ ~resolved
                  => /\ proc' # "running"
                     /\ proc = "running" => procEnd'.by = "timer"
                     /\ promise'.state = "rejected"
                     /\ promise'.error = "timeout"
             /\ resolved => (proc' = proc /\ promise' = promise)
     /\ (promise.state = "pending" /\ promise'.state = "fulfilled")
          => timer' = "cleared"
     /\ promise.state = "fulfilled"
          => /\ timer # "armed"
             /\ procEnd'.by = "timer" => procEnd.by = "timer"]_vars

\* the timer killed the child and failed the call
C18_Witness ==
  /\ promise.state = "rejected"
  /\ promise.error = "timeout"
  /\ procEnd.by = "timer"
  /\ elapsed >= 30000

\* the step handles the end of a child that ended of its own accord, or
\* its failure to spawn, and no URL has matched
EndHandledUnmatched ==
  /\ \/ proc = "exited" /\ procEnd.by = "self"
     \/ proc = "spawn_failed"
  /\ proc' = "closed"
  /\ ~resolved

\* connect() is rejected with the exit code or with the spawn error
RejectedWithEnd ==
  /\ promise'.state = "rejected"
  /\ promise'.error = IF proc = "spawn_failed" THEN "spawn" ELSE "exit"
  /\ promise'.code = procEnd'.code

(* C19 as stated: when the child exits or fails to spawn before any URL has
   matched, connect() rejects with an error carrying the exit code or the
   spawn error, and the startup timer is cancelled. *)
C19_ExitRejects ==
  [][EndHandledUnmatched => (RejectedWithEnd /\ timer' = "cleared")]_vars

(* C19 as amended: the same, when the startup timer has not fired before
   the exit or the spawn failure is handled. *)
C19_ExitRejectsBeforeTimeout ==
  [][(EndHandledUnmatched /\ timer = "armed")
       => (RejectedWithEnd /\ timer' = "cleared")]_vars

\* the child exited with code 1 before it had written a URL
C19_Witness ==
  /\ promise.state = "rejected"
  /\ promise.error = "exit"
  /\ promise.code = 1
  /\ timer = "cleared"

(* C20, for the stream the child's URL is read from: as soon as what the
   child has written to stderr contains a match, and connect() has not
   failed, connect() has resolved with the first match of that output. *)
C20_FirstUrlOfStream ==
  (/\ chosen = "cloudflared"
   /\ output.stream = "stderr"
   /\ Match(delivered) # <<>>
   /\ promise.state # "rejected")
    => /\ promise.state = "fulfilled"
       /\ promise.url = Match(delivered)

(* C21: localtunnel's connect calls the library at most 3 times; the first
   call that succeeds ends the loop (no call follows it, nothing is thrown);
   the 2000 ms delay is waited once after each failed call but the third,
   so that 2000 * (calls - 1) ms have been waited whenever a call is under
   way or has succeeded; when the third call has failed connect throws, 4000
   ms having been waited, with the message of the third call's error. *)
C21_BoundedRetries ==
  chosen = "localtunnel" =>
    /\ ltCalls <= 3
    /\ sdk = "connecting"
         => Len(ltErrors) = ltCalls - 1 /\ ltSleptMs = 2000 * (ltCalls - 1)
    /\ sdk = "sleeping"
         => Len(ltErrors) = ltCalls /\ ltCalls < 3
            /\ ltSleptMs = 2000 * ltCalls
    /\ sdk \in {"open", "closed", "terminated"}
         => /\ Len(ltErrors) = ltCalls - 1
            /\ ltSleptMs = 2000 * (ltCalls - 1)
            /\ thrown = NoThrown
    /\ sdk = "failed"
         => /\ ltCalls = 3
            /\ Len(ltErrors) = 3
            /\ ltSleptMs = 4000
            /\ thrown = [attempts |-> 3, message |-> ltErrors[3]]
    /\ thrown # NoThrown => sdk = "failed"

\* all three calls have failed, the last with another error than the first
C21_Witness ==
  /\ chosen = "localtunnel"
  /\ sdk = "failed"
  /\ Len(ltErrors) = 3
  /\ ltErrors[1] # ltErrors[3]
  /\ thrown.message = ltErrors[3]
  /\ dev = "serving"

(* C22: createTunnel() is invoked only when the dev server has been spawned
   and waitForServer() has reported it healthy; waitForServer() reports
   failure only with its 30th failed attempt, and from then on createTunnel()
   is never invoked and no provider is asked or connected. *)
C22_HealthGated ==
  /\ [](ct # "none" => child # "none" /\ isHealthy = "yes")
  /\ [](isHealthy = "no"
         => ct = "none" /\ probed = <<>> /\ ConnectCalls = 0
            /\ tunnel = "null")
  /\ [][/\ (ct = "none" /\ ct' # "none")
            => child = "running" /\ isHealthy' = "yes"
        /\ (isHealthy = "pending" /\ isHealthy' = "no") => poll = 29]_vars

\* the server never became healthy and the workflow goes on without a
\* tunnel that was asked for
C22_Witness ==
  /\ options.tunnel
  /\ isHealthy = "no"
  /\ dev = "serving"
  /\ child = "running"
  /\ ct = "none"

(* C23: a failure of the tunnel never ends the dev workflow: in the step in
   which createTunnel() fails (unknown or unavailable provider, startup
   timeout, cloudflared ending or failing to spawn, ngrok failing, the
   third localtunnel attempt failing) or waitForServer() reports failure,
   the dev server keeps running and the CLI goes on serving without a
   tunnel; the CLI exits only by a signal or by the dev server's end. *)
C23_TunnelFailureNotFatal ==
  /\ [](exitedBy \in {"none", "signal", "child_close", "child_error"})
  /\ [][((ct # "rejected" /\ ct' = "rejected")
           \/ (isHealthy = "pending" /\ isHealthy' = "no"))
          => /\ dev' = "serving"
             /\ child = "running" /\ child' = "running"
             /\ exitedBy' = "none"
             /\ tunnel' = "null"]_vars

\* cloudflared ran into the startup timeout and the dev server is served
\* without a tunnel
C23_Witness ==
  /\ ct = "rejected"
  /\ chosen = "cloudflared"
  /\ promise.error = "timeout"
  /\ dev = "serving"
  /\ child = "running"

(* C24: when getValidToken() has read a stored token and asks
   isTokenExpired(), it returns the stored token, with no request sent, if
   and only if the expiry in the file is present and the current time is at
   most expiresAt - 60 seconds; in every other case (the time is past
   expiresAt - 60, or expiresAt is absent) it goes on to
   refreshAccessToken(). *)
C24_StaleExactlyPastMargin ==
  [][\A p \in Procs :
       (pc[p] = "gvt_expired" /\ pc'[p] \notin {"gvt_expired", "idle"})
         => LET expiresAt == LoadConfig(fs).expiresAt
                fresh == expiresAt # 0 /\ now <= (expiresAt - 60) * 1000
            IN /\ fresh => /\ pc'[p] = "returned"
                          /\ loc'[p].result = loc[p].token
                          /\ hist'[p].fetches = 0
                          /\ hist'[p].writes = 0
               /\ ~fresh => pc'[p] = "rat_start"]_vars

\* a token is returned at the very last millisecond at which it counts as
\* fresh
C24_Witness ==
  \E p \in Procs :
    /\ pc[p] = "returned"
    /\ loc[p].result > 0
    /\ loc[p].result = loc[p].token
    /\ hist[p].fetches = 0
    /\ LoadConfig(fs).expiresAt # 0
    /\ now = (LoadConfig(fs).expiresAt - 60) * 1000

\* a stored token whose expiry is absent is taken to refreshAccessToken()
C24_WitnessNoExpiry ==
  \E p \in Procs :
    /\ pc[p] = "rat_start"
    /\ loc[p].token > 0
    /\ LoadConfig(fs).token > 0
    /\ LoadConfig(fs).expiresAt = 0

\* p acts in this step, and it is not killed
Steps(p, label) == pc[p] = label /\ pc'[p] \notin {label, "idle"}

(* C25: when the refresh request has succeeded and the re-read refresh token
   is another one than the one sent, and the persisted access token is then
   found absent or expired, the call goes on to setSession(); the save it
   ends with is the only write of the call, leaves in the session file the
   access token, refresh token and expiry of this call's response, and the
   call returns the access token of its response. *)
C25_ExpiredSiblingOverwritten ==
  [][\A p \in Procs :
       (loc[p].resp.kind = "ok" /\ loc[p].after = "return"
        /\ SawOtherRefreshToken(loc[p]))
         => /\ (Steps(p, "occ_token") /\ LoadConfig(fs).token = 0)
                 => pc'[p] = "set_load" /\ hist'[p].sibling = "absent"
            /\ (Steps(p, "occ_expired") /\ ~NotExpired(LoadConfig(fs), now))
                 => pc'[p] = "set_load" /\ hist'[p].sibling = "expired"
            /\ (Steps(p, "save_rename")
                /\ hist[p].sibling \in {"absent", "expired"})
                 => /\ pc'[p] = "returned"
                    /\ loc'[p].result = loc[p].resp.pair
                    /\ hist'[p].writes = 1
                    /\ fs'[CONFIG_FILE].kind = "complete"
                    /\ LoadConfig(fs').token = loc[p].resp.pair
                    /\ LoadConfig(fs').refreshToken = loc[p].resp.pair
                    /\ LoadConfig(fs').expiresAt > 0
                    /\ fs[CONFIG_FILE] # fs'[CONFIG_FILE]]_vars

\* a call has overwritten the expired session a sibling had saved and has
\* returned its own new token
C25_Witness ==
  \E p \in Procs :
    /\ pc[p] = "returned"
    /\ loc[p].resp.kind = "ok"
    /\ SawOtherRefreshToken(loc[p])
    /\ hist[p].sibling = "expired"
    /\ hist[p].writes = 1
    /\ loc[p].result = loc[p].resp.pair
    /\ LoadConfig(fs).token = loc[p].result
    /\ LoadConfig(fs).refreshToken = loc[p].result

\* p is inside the re-read loop that follows a reuse rejection
InReuseLoop(p) == pc[p] \in {"retry_sleep", "retry_token", "retry_expired"}

(* C26: the re-read loop that follows a reuse rejection is bounded: the call
   never waits again after its third re-read, and every step of the loop
   leaves it in the loop or returns.  It returns a token only when a
   re-read has found another refresh token with an access token that is
   not expired; otherwise it returns null, with its third re-read, having
   asked for delays of 500 + 1000 + 1500 ms that have all passed, having
   sent the one request that was rejected and having written nothing to the
   session file. *)
C26_ReuseLoopTerminates ==
  /\ [](\A p \in Procs :
          /\ hist[p].rereads <= 3
          /\ pc[p] = "retry_sleep" => hist[p].rereads < 3)
  /\ [][\A p \in Procs :
          (InReuseLoop(p) /\ pc'[p] # pc[p] /\ pc'[p] # "idle")
            => /\ pc'[p] \in {"retry_sleep", "retry_token", "retry_expired",
                               "returned"}
               /\ hist'[p].fetches = 1
               /\ hist'[p].writes = 0
               /\ fs' = fs
               /\ issued' = issued
               /\ (pc'[p] = "returned" /\ loc'[p].result # 0)
                    => /\ hist'[p].sibling = "valid"
                       /\ SawOtherRefreshToken(loc'[p])
                       /\ loc'[p].result = loc[p].curAT
               /\ (pc'[p] = "returned" /\ loc'[p].result = 0)
                    => /\ hist'[p].rereads = 3
                       /\ hist'[p].sleptMs = 500 + 1000 + 1500
                       /\ now >= hist[p].respMs + 3000
                       /\ hist'[p].sibling # "valid"]_vars

\* the loop has given up after its third re-read
C26_Witness ==
  \E p \in Procs :
    /\ pc[p] = "returned"
    /\ loc[p].resp.kind = "reuse"
    /\ loc[p].result = 0
    /\ hist[p].rereads = 3
    /\ hist[p].sleptMs = 3000
    /\ hist[p].fetches = 1
    /\ hist[p].writes = 0

\* the error is one of the network: a NetworkError that
\* wrapNetworkError() marked as retryable, or an unwrapped error with one of
\* the network codes or messages
IsNetworkError(e) ==
  \/ e.class = "NetworkError" /\ e.isRetryable
  \/ /\ e.class = "Error"
     /\ \/ e.code \in {Strings.ENOTFOUND, Strings.ETIMEDOUT,
                       Strings.ECONNRESET, Strings.ECONNREFUSED,
                       Strings.UND_ERR_CONNECT_TIMEOUT}
        \/ Includes(e.message, Strings.fetch_failed)
        \/ Includes(e.message, Strings.network)

\* not retryable: an APIError whose status is not 429/503/504, or an error
\* that is not a network error
NotRetryable(e) ==
  IF e.class = "APIError" THEN e.statusCode \notin {429, 503, 504}
  ELSE ~IsNetworkError(e)

\* the delays that precede the calls 2..n
DelaysBefore(n) == SubSeq(<<1000, 2000>>, 1, n - 1)

(* C27: withRetry() calls fn at most 3 times and returns with the first call
   that succeeds; it has waited 1000 ms before the 2nd call and 2000 ms
   before the 3rd and at no other time; what it throws is the error of its
   last call, and it throws after the 1st or the 2nd call only an error
   that is not retryable (an APIError whose status is not 429/503/504, or
   an error that is not a network error). *)
C27_RetryPolicy ==
  wr # "none" =>
    /\ wrCalls <= 3
    /\ wr \in {"calling", "returned"}
         => Len(wrErrors) = wrCalls - 1 /\ wrDelays = DelaysBefore(wrCalls)
    /\ wr = "sleeping"
         => Len(wrErrors) = wrCalls /\ wrDelays = DelaysBefore(wrCalls + 1)
    /\ wr = "threw"
         => /\ Len(wrErrors) = wrCalls
            /\ wrThrown = wrErrors[wrCalls]
            /\ wrDelays = DelaysBefore(wrCalls)
            /\ wrCalls < 3 => NotRetryable(wrThrown)

(* C28: whenever getValidToken(), or the re-read loop after a reuse
   rejection, returns a persisted access token because isTokenExpired()
   answered false, the session file that isTokenExpired() read holds that
   same access token, so that the expiry it judged is the expiry of the
   token that is returned. *)
C28_ReturnedTokenIsTheOneJudged ==
  [][\A p \in Procs :
       (/\ Steps(p, "gvt_expired") \/ Steps(p, "retry_expired")
        /\ pc'[p] = "returned"
        /\ loc'[p].result # 0)
         => LoadConfig(fs).token = loc'[p].result]_vars

\* no call of getValidToken() is under way
AllReturned ==
  \A p \in Procs : pc[p] \in {"idle", "returned", "done", "threw"}

(* C29: with a single-use rotating refresh token and neither login nor
   logout, whenever no call of getValidToken() is under way the session file
   holds the refresh token the endpoint issued last, which has not been
   used, and the access token issued with it; a successful refresh never
   finds that a sibling has replaced the refresh token meanwhile. *)
C29_LatestPairPersisted ==
  /\ AllReturned
       => /\ fs[CONFIG_FILE].kind = "complete"
          /\ LoadConfig(fs).refreshToken = issued
          /\ LoadConfig(fs).token = issued
  /\ \A p \in Procs : pc[p] \notin {"occ_token", "occ_expired"}

\* two calls have met on the expired session: one has refreshed it, the
\* other was rejected for reuse and has returned the token the first saved
C29_Witness ==
  /\ AllReturned
  /\ issued = 2
  /\ LoadConfig(fs).refreshToken = 2
  /\ \E p, q \in Procs :
       /\ p # q
       /\ pc[p] = "returned" /\ loc[p].resp.kind = "ok" /\ loc[p].result = 2
       /\ pc[q] = "returned" /\ loc[q].resp.kind = "reuse"
       /\ loc[q].result = 2

(* C30: after a logout command has completed its clearSession(), a step in
   which the persisted session goes from empty to present is the rename of
   a login command: the setSession() of a refresh that was in flight during
   the logout does not bring a session back. *)
C30_LogoutSticks ==
  [][(/\ \E q \in Procs : cmd[q] = "logout" /\ pc[q] = "done"
      /\ ~SessionPresent(LoadConfig(fs))
      /\ SessionPresent(LoadConfig(fs')))
       => \E p \in Procs :
            /\ cmd[p] = "login"
            /\ pc[p] = "save_rename"
            /\ pc'[p] # "save_rename"]_vars

TypeOK ==
  /\ \A path \in Paths : fs[path].kind \in {"absent", "partial", "complete"}
  /\ issued \in 1..(1 + 2 * runs)
  /\ now <= MaxNowMs
  /\ runs \in 0..MaxCommands

====
